---- MODULE Spec2Model ----
(***************************************************************************)
(* A state-machine model of parts of the renderer:                         *)
(*   - the batcher (DefaultBatcher's attribute packing, and the grouping   *)
(*     algorithm of its base class Batcher),                               *)
(*   - the texture source (BaseTexture: setSize / update / destroy),       *)
(*   - the GL buffer system (GlBufferSystem: bind / updateBuffer / ...,    *)
(*     and the destroy of a Buffer),                                       *)
(*   - the transforms (TransformBase: field setters / updateTransform,     *)
(*     the update pass over a chain),                                      *)
(*   - the bounds (BoundsBuilder: clear / addFrame / getRectangle),        *)
(*   - the texture garbage collector (TextureGarbageCollector: update/run),*)
(*   - the canvas render target (CanvasRenderTarget),                      *)
(*   - the shader program cache (Program.from, Preprocessor),              *)
(*   - the shader (Shader: constructor / addResource / destroy),           *)
(*   - the texture cache (BaseTexture.from / destroy, shared Resources),   *)
(*   - the interaction manager (processInteractive, the mouse events),     *)
(*   - the rope geometry (RopeGeometry: build / updateVertices / update),  *)
(*   - the ticker (Ticker: start / stop / update on animation frames).     *)
(* Each part has its own next-state relation and specification; the        *)
(* variables of the other parts stay at their initial values.              *)
(***************************************************************************)
EXTENDS Integers, Sequences, FiniteSets, TLC

VARIABLES
    \* ---- batcher ----
    phase,            \* "idle" | "building" | "finished"
    elements,         \* history: the elements packed since begin(), in add order
    batches,          \* the batches emitted so far
    batchTextures,    \* active texture set of the batch under construction
    batchBlend,       \* blend mode of the batch under construction ("none" if empty)
    batchStart,       \* index-buffer offset where the batch under construction starts
    attributeSize,    \* running vertex count
    indexSize,        \* running index count
    attributeBuffer,  \* shared attribute view (one 32-bit word per slot)
    indexBuffer,      \* shared index view
    forced,           \* number of batches cut by break_batch()
    \* ---- texture source ----
    bt,               \* the BaseTexture's fields, and the events its last call emitted
    resource,         \* the Resource bound to it: size, listeners, destroyed
    BaseTextureCache, \* ids under which the global cache holds the texture
    lastCall,         \* the last operation called on the texture, with its arguments
    destroyCalls,     \* number of destroy() calls so far
    destroyDisposes,  \* number of 'dispose' events emitted from within destroy()
    \* ---- GL buffer system ----
    buffers,          \* the CPU-side Buffers: _updateID, data.byteLength
    gpuBuffers,       \* GlBufferSystem._gpuBuffers: uid -> GlBuffer (or no entry)
    gl,               \* the current GL context: its live buffer handles, its binding points
    glCalls,          \* the GL calls issued by the last operation, in order
    lastOp,           \* the last operation of the buffer system, with its Buffer
    destroyListeners, \* per Buffer, the 'destroy' listeners createGLBuffer registered
    nulled,           \* the uids whose _gpuBuffers entry onBufferDestroy set to null
    destroyedBuffers, \* the Buffers destroyed
    boundBufferBases, \* GlBufferSystem.boundBufferBases: index -> Buffer (0: none)
    \* ---- transforms ----
    tr,               \* the TransformBase objects, by node
    lastT,            \* the last operation on a transform, with its arguments
    \* ---- bounds ----
    bb,               \* the BoundsBuilder: minX, minY, maxX, maxY
    lastB,            \* the last operation on the bounds, with its arguments
    \* ---- texture garbage collector ----
    gc,               \* the TextureGarbageCollector: count, checkCount, mode
    gcTextures,       \* the textures: touched, _glRenderTargets, backend texture, destroyed
    managedTextures,  \* textureManager._managedTextures (0 stands for null)
    lastG,            \* the last operation of the collector, and whether run() ran
    \* ---- canvas render target ----
    crt,              \* the CanvasRenderTarget: canvas (or null), context, resolution
    lastR,            \* the last operation on it: what it returned, whether it threw
    \* ---- shader programs ----
    nameCache,        \* Preprocessor's nameCache: name -> times used (0: no entry)
    ProgramCache,     \* ProgramCache: the keys, each with the id of its Program
    UID,              \* the next Program id
    fromReturned,     \* history: per argument list of Program.from, the ids returned
    lastP,            \* the last call of Program.from: arguments, result
    \* ---- shader ----
    shader,           \* the Shader last constructed: groups, bind map, resources
    lastS,            \* the last operation on a shader: its options, the error thrown
    \* ---- texture cache and shared resources ----
    baseTextures,     \* the BaseTextures, by number: resource, cacheId, textureCacheIds
    sharedResources,  \* the Resources, by number: the textures bound, destroyed
    textureCache,     \* BaseTextureCache: id -> the number of its BaseTexture (0: none)
    lastFrom,         \* history: per source, the texture BaseTexture.from returned last
    lastC,            \* the last call: its arguments, result, error, textures notified
    \* ---- interaction manager ----
    displayObjects,   \* the scene: per object its flags, handlers, _over, _isLeftDown, ...
    eventData,        \* InteractionManager.eventData: stopped
    mouse,            \* InteractionManager.mouse: global, the pointer's position
    didMove,          \* InteractionManager.didMove
    _deltaTime,       \* InteractionManager._deltaTime
    pressed,          \* history: per object and button, a mousedown hit it and no mouseup came since
    lastOverOut,      \* history: per object, the last of 'mouseover' / 'mouseout' delivered
    lastI,            \* the last pass: callback calls, hit tests, events dispatched / delivered
    \* ---- rope geometry ----
    rope,             \* the RopeGeometry: points, textureScale and its three buffers
    lastRope,         \* the last operation on the geometry
    \* ---- ticker ----
    ticker,           \* the Ticker: active, deltaTime (in hundredths), lastTime, speed
    pending,          \* the animation-frame callbacks of the Ticker requested and not yet run
    clock,            \* new Date().getTime(), in ms
    frames,           \* number of animation frames so far
    lastTick          \* the last operation, and the 'tick' events an animation frame emitted

batcherVars == <<phase, elements, batches, batchTextures, batchBlend, batchStart,
                 attributeSize, indexSize, attributeBuffer, indexBuffer, forced>>

textureVars == <<bt, resource, BaseTextureCache, lastCall, destroyCalls, destroyDisposes>>

bufferVars == <<buffers, gpuBuffers, gl, glCalls, lastOp, destroyListeners, nulled,
                destroyedBuffers, boundBufferBases>>

transformVars == <<tr, lastT>>

boundsVars == <<bb, lastB>>

gcVars == <<gc, gcTextures, managedTextures, lastG>>

canvasVars == <<crt, lastR>>

programVars == <<nameCache, ProgramCache, UID, fromReturned, lastP>>

shaderVars == <<shader, lastS>>

cacheVars == <<baseTextures, sharedResources, textureCache, lastFrom, lastC>>

interactionVars == <<displayObjects, eventData, mouse, didMove, _deltaTime, pressed,
                     lastOverOut, lastI>>

ropeVars == <<rope, lastRope>>

tickerVars == <<ticker, pending, clock, frames, lastTick>>

vars == <<batcherVars, textureVars, bufferVars, transformVars, boundsVars, gcVars, canvasVars, programVars, shaderVars, cacheVars, interactionVars, ropeVars, tickerVars>>

\* What an operation of one part leaves alone: the other parts.
BatcherOnly ==
    UNCHANGED <<textureVars, bufferVars, transformVars, boundsVars, gcVars, canvasVars,
                programVars, shaderVars, cacheVars, interactionVars, ropeVars, tickerVars>>
TextureOnly ==
    UNCHANGED <<batcherVars, bufferVars, transformVars, boundsVars, gcVars, canvasVars,
                programVars, shaderVars, cacheVars, interactionVars, ropeVars, tickerVars>>
BufferOnly ==
    UNCHANGED <<batcherVars, textureVars, transformVars, boundsVars, gcVars, canvasVars,
                programVars, shaderVars, cacheVars, interactionVars, ropeVars, tickerVars>>
TransformOnly ==
    UNCHANGED <<batcherVars, textureVars, bufferVars, boundsVars, gcVars, canvasVars,
                programVars, shaderVars, cacheVars, interactionVars, ropeVars, tickerVars>>
BoundsOnly ==
    UNCHANGED <<batcherVars, textureVars, bufferVars, transformVars, gcVars, canvasVars,
                programVars, shaderVars, cacheVars, interactionVars, ropeVars, tickerVars>>
GcOnly ==
    UNCHANGED <<batcherVars, textureVars, bufferVars, transformVars, boundsVars, canvasVars,
                programVars, shaderVars, cacheVars, interactionVars, ropeVars, tickerVars>>
CanvasOnly ==
    UNCHANGED <<batcherVars, textureVars, bufferVars, transformVars, boundsVars, gcVars,
                programVars, shaderVars, cacheVars, interactionVars, ropeVars, tickerVars>>
ProgramOnly ==
    UNCHANGED <<batcherVars, textureVars, bufferVars, transformVars, boundsVars, gcVars,
                canvasVars, shaderVars, cacheVars, interactionVars, ropeVars, tickerVars>>
ShaderOnly ==
    UNCHANGED <<batcherVars, textureVars, bufferVars, transformVars, boundsVars, gcVars,
                canvasVars, programVars, cacheVars, interactionVars, ropeVars, tickerVars>>
CacheOnly ==
    UNCHANGED <<batcherVars, textureVars, bufferVars, transformVars, boundsVars, gcVars,
                canvasVars, programVars, shaderVars, interactionVars, ropeVars, tickerVars>>
MouseOnly ==
    UNCHANGED <<batcherVars, textureVars, bufferVars, transformVars, boundsVars, gcVars,
                canvasVars, programVars, shaderVars, cacheVars, ropeVars, tickerVars>>
RopeOnly ==
    UNCHANGED <<batcherVars, textureVars, bufferVars, transformVars, boundsVars, gcVars,
                canvasVars, programVars, shaderVars, cacheVars, interactionVars, tickerVars>>
TickerOnly ==
    UNCHANGED <<batcherVars, textureVars, bufferVars, transformVars, boundsVars, gcVars,
                canvasVars, programVars, shaderVars, cacheVars, interactionVars, ropeVars>>

----------------------------------------------------------------------------
\* Bounds of the model.
MaxElements == 3
NumTextures == 3
maxTextures == 2
AttributesInitialSize == 24
IndicesInitialSize == 6

\* DefaultBatcher.vertexSize: x, y, u, v, color, textureIdAndRound
vertexSize == 6

Textures == 1..NumTextures
BlendModes == {"normal", "add"}
\* the textures meshes are drawn with (quads use every texture)
MeshTextures == {1}

\* 0-based JS array read of a 1-based sequence
At(arr, i) == arr[i + 1]

----------------------------------------------------------------------------
\* Batchable elements.  Geometry, transform and colour are fixed per texture
\* and kind; the texture and the blend mode are the inputs that vary.

Transform(t) == [a |-> 2, b |-> 1, c |-> 3, d |-> t, tx |-> 10 * t, ty |-> 5]

QuadUvs == [x0 |-> 0, y0 |-> 0, x1 |-> 1, y1 |-> 0, x2 |-> 1, y2 |-> 1, x3 |-> 0, y3 |-> 1]

QuadElement(t, blend) ==
    [kind |-> "quad", texture |-> t, blendMode |-> blend,
     color |-> 2130706432 + t, roundPixels |-> t % 2,
     transform |-> Transform(t),
     bounds |-> [minX |-> 0, maxX |-> t + 1, minY |-> 1, maxY |-> 3],
     uvs |-> QuadUvs,
     attributeSize |-> 4, indexSize |-> 6,
     indices |-> <<0, 1, 2, 0, 2, 3>>]

MeshElement(t, blend) ==
    [kind |-> "mesh", texture |-> t, blendMode |-> blend,
     color |-> 1056964608 + t, roundPixels |-> (t + 1) % 2,
     transform |-> Transform(t),
     positions |-> <<0, 0, t, 0, 0, 3>>,
     uvs |-> <<0, 0, 1, 0, 0, 1>>,
     attributeOffset |-> 0, attributeSize |-> 3,
     indexOffset |-> 0, indexSize |-> 3,
     indices |-> <<0, 2, 1>>]

EmptyElement(t, blend) ==
    [kind |-> "mesh", texture |-> t, blendMode |-> blend,
     color |-> 1056964608 + t, roundPixels |-> 0,
     transform |-> Transform(t),
     positions |-> << >>, uvs |-> << >>,
     attributeOffset |-> 0, attributeSize |-> 0,
     indexOffset |-> 0, indexSize |-> 0,
     indices |-> << >>]

Elements == {QuadElement(t, bl) : t \in Textures, bl \in BlendModes}
                \cup {MeshElement(t, bl) : t \in MeshTextures, bl \in BlendModes}

----------------------------------------------------------------------------
\* DefaultBatcher: attribute packing.  float32View and uint32View are two
\* views of one ArrayBuffer, so they are one sequence of 32-bit slots here;
\* `index` is the 0-based slot where the element's first word goes.  A write
\* past the end of a typed array is dropped.

\* textureId << 16 and roundPixels & 0xFFFF; the low 16 bits of the first are
\* zero, so the bitwise or of the two is their sum.  Unit indices and colours
\* stay below 2^31, where the uint32 store is the identity.
Shl16(x) == x * 65536
And16(x) == x % 65536

\* mutant: the vertex loop stops one vertex early
packAttributesSkipLast(element, view, index, textureId) ==
    LET textureIdAndRound == Shl16(textureId) + And16(element.roundPixels)
        wt == element.transform
        offset == element.attributeOffset
        n == element.attributeSize - 1
        Vertex(i) ==
            LET i2 == i * 2
                x == At(element.positions, i2)
                y == At(element.positions, i2 + 1)
            IN  << (wt.a * x) + (wt.c * y) + wt.tx,
                   (wt.d * y) + (wt.b * x) + wt.ty,
                   At(element.uvs, i2),
                   At(element.uvs, i2 + 1),
                   element.color,
                   textureIdAndRound >>
    IN  [s \in DOMAIN view |->
            LET k == s - 1 - index
            IN  IF k >= 0 /\ k < n * vertexSize
                THEN Vertex(offset + (k \div vertexSize))[(k % vertexSize) + 1]
                ELSE view[s]]

packAttributes(element, view, index, textureId) ==
    LET textureIdAndRound == Shl16(textureId) + And16(element.roundPixels)
        wt == element.transform
        offset == element.attributeOffset
        n == element.attributeSize
        Vertex(i) ==
            LET i2 == i * 2
                x == At(element.positions, i2)
                y == At(element.positions, i2 + 1)
            IN  << (wt.a * x) + (wt.c * y) + wt.tx,
                   (wt.d * y) + (wt.b * x) + wt.ty,
                   At(element.uvs, i2),
                   At(element.uvs, i2 + 1),
                   element.color,
                   textureIdAndRound >>
    IN  [s \in DOMAIN view |->
            LET k == s - 1 - index
            IN  IF k >= 0 /\ k < n * vertexSize
                THEN Vertex(offset + (k \div vertexSize))[(k % vertexSize) + 1]
                ELSE view[s]]

QuadWords(element, textureId) ==
    LET wt == element.transform
        a == wt.a
        b == wt.b
        c == wt.c
        d == wt.d
        tx == wt.tx
        ty == wt.ty
        w0 == element.bounds.maxX
        w1 == element.bounds.minX
        h0 == element.bounds.maxY
        h1 == element.bounds.minY
        uvs == element.uvs
        argb == element.color
        textureIdAndRound == Shl16(textureId) + And16(element.roundPixels)
    IN  << (a * w1) + (c * h1) + tx, (d * h1) + (b * w1) + ty,
           uvs.x0, uvs.y0, argb, textureIdAndRound,
           (a * w0) + (c * h1) + tx, (d * h1) + (b * w0) + ty,
           uvs.x1, uvs.y1, argb, textureIdAndRound,
           (a * w0) + (c * h0) + tx, (d * h0) + (b * w0) + ty,
           uvs.x2, uvs.y2, argb, textureIdAndRound,
           (a * w1) + (c * h0) + tx, (d * h0) + (b * w1) + ty,
           uvs.x3, uvs.y3, argb, textureIdAndRound >>

\* mutant: the fourth vertex is not written
packQuadAttributesThreeVertices(element, view, index, textureId) ==
    LET words == QuadWords(element, textureId)
    IN  [s \in DOMAIN view |->
            LET k == s - 1 - index
            IN  IF k >= 0 /\ k < 18 THEN words[k + 1] ELSE view[s]]

\* mutant: the texture unit is not encoded (every vertex samples unit 0)
packQuadAttributesUnitZero(element, view, index, textureId) ==
    LET words == QuadWords(element, 0)
    IN  [s \in DOMAIN view |->
            LET k == s - 1 - index
            IN  IF k >= 0 /\ k < Len(words) THEN words[k + 1] ELSE view[s]]

\* mutant: one word more is written after the fourth vertex
packQuadAttributesExtraWord(element, view, index, textureId) ==
    LET words == Append(QuadWords(element, textureId), element.color)
    IN  [s \in DOMAIN view |->
            LET k == s - 1 - index
            IN  IF k >= 0 /\ k < Len(words) THEN words[k + 1] ELSE view[s]]

packQuadAttributes(element, view, index, textureId) ==
    LET words == QuadWords(element, textureId)
    IN  [s \in DOMAIN view |->
            LET k == s - 1 - index
            IN  IF k >= 0 /\ k < Len(words) THEN words[k + 1] ELSE view[s]]

----------------------------------------------------------------------------
\* Batcher (base class): grouping, texture-unit allocation, flush boundaries.

Zeros(n) == [i \in 1..n |-> 0]

\* Geometric growth of a shared view: double the capacity until `needed`
\* slots fit, copying the existing data forward.
RECURSIVE GrownCapacity(_, _)
GrownCapacity(capacity, needed) ==
    IF needed <= capacity THEN capacity ELSE GrownCapacity(capacity * 2, needed)

ensureBuffer(view, needed) ==
    IF needed <= Len(view)
    THEN view
    ELSE view \o Zeros(GrownCapacity(Len(view), needed) - Len(view))

\* Index of a texture in the active set (0-based unit), or -1.
UnitOf(textures, t) ==
    IF \E u \in 1..Len(textures) : textures[u] = t
    THEN (CHOOSE u \in 1..Len(textures) : textures[u] = t) - 1
    ELSE -1

\* Source indices of an element, offset by the running vertex count.
packIndex(element, view, index, indicesOffset) ==
    [s \in DOMAIN view |->
        LET k == s - 1 - index
        IN  IF k >= 0 /\ k < element.indexSize
            THEN indicesOffset + At(element.indices, k)
            ELSE view[s]]

\* The batch under construction, as recorded when it is finalized.
CurrentBatch ==
    [textures |-> batchTextures, blendMode |-> batchBlend,
     start |-> batchStart, size |-> indexSize - batchStart]

BatchIsEmpty == indexSize = batchStart

\* mutant: every texture that is not in the active set starts a new batch
breakRequiredOnNewTexture(element) ==
    /\ ~BatchIsEmpty
    /\ \/ element.blendMode # batchBlend
       \/ UnitOf(batchTextures, element.texture) = -1

\* mutant: a change of blend mode does not start a new batch
breakRequiredIgnoreBlend(element) ==
    /\ ~BatchIsEmpty
    /\ UnitOf(batchTextures, element.texture) = -1
    /\ Len(batchTextures) >= maxTextures

\* mutant: the unit budget is compared off by one
breakRequiredOffByOne(element) ==
    /\ ~BatchIsEmpty
    /\ \/ element.blendMode # batchBlend
       \/ /\ UnitOf(batchTextures, element.texture) = -1
          /\ Len(batchTextures) > maxTextures

breakRequired(element) ==
    /\ ~BatchIsEmpty
    /\ \/ element.blendMode # batchBlend
       \/ /\ UnitOf(batchTextures, element.texture) = -1
          /\ Len(batchTextures) >= maxTextures

begin ==
    /\ BatcherOnly
    /\ phase = "idle"
    /\ phase' = "building"
    /\ elements' = << >>
    /\ batches' = << >>
    /\ batchTextures' = << >>
    /\ batchBlend' = "none"
    /\ batchStart' = 0
    /\ attributeSize' = 0
    /\ indexSize' = 0
    /\ forced' = 0
    /\ UNCHANGED <<attributeBuffer, indexBuffer>>

add(element) ==
    /\ BatcherOnly
    /\ phase = "building"
    /\ Len(elements) < MaxElements
    /\ element.attributeSize > 0
    /\ LET cut == breakRequired(element)
           active == IF cut THEN << >> ELSE batchTextures
           known == UnitOf(active, element.texture)
           textureId == IF known >= 0 THEN known ELSE Len(active)
           grown == ensureBuffer(attributeBuffer,
                                 (attributeSize + element.attributeSize) * vertexSize)
           grownIndex == ensureBuffer(indexBuffer, indexSize + element.indexSize)
       IN  /\ batches' = IF cut THEN Append(batches, CurrentBatch) ELSE batches
           /\ batchStart' = IF cut THEN indexSize ELSE batchStart
           /\ batchBlend' = element.blendMode
           /\ batchTextures' = IF known >= 0 THEN active
                               ELSE Append(active, element.texture)
           /\ attributeBuffer' =
                 IF element.kind = "quad"
                 THEN packQuadAttributes(element, grown, attributeSize * vertexSize, textureId)
                 ELSE packAttributes(element, grown, attributeSize * vertexSize, textureId)
           /\ indexBuffer' = packIndex(element, grownIndex, indexSize, attributeSize)
           /\ attributeSize' = attributeSize + element.attributeSize
           /\ indexSize' = indexSize + element.indexSize
           /\ elements' = Append(elements, element)
    /\ UNCHANGED <<phase, forced>>

\* A zero-size geometry is skipped.
addEmpty(element) ==
    /\ BatcherOnly
    /\ phase = "building"
    /\ element.attributeSize = 0
    /\ UNCHANGED batcherVars

break_batch ==
    /\ BatcherOnly
    /\ phase = "building"
    /\ ~BatchIsEmpty
    /\ batches' = Append(batches, CurrentBatch)
    /\ batchStart' = indexSize
    /\ batchTextures' = << >>
    /\ batchBlend' = "none"
    /\ forced' = forced + 1
    /\ UNCHANGED <<phase, elements, attributeSize, indexSize, attributeBuffer, indexBuffer>>

finish ==
    /\ BatcherOnly
    /\ phase = "building"
    /\ phase' = "finished"
    /\ batches' = IF BatchIsEmpty THEN batches ELSE Append(batches, CurrentBatch)
    /\ batchStart' = indexSize
    /\ batchTextures' = << >>
    /\ batchBlend' = "none"
    /\ UNCHANGED <<elements, attributeSize, indexSize, attributeBuffer, indexBuffer, forced>>

BatcherInit ==
    /\ phase = "idle"
    /\ elements = << >>
    /\ batches = << >>
    /\ batchTextures = << >>
    /\ batchBlend = "none"
    /\ batchStart = 0
    /\ attributeSize = 0
    /\ indexSize = 0
    /\ attributeBuffer = Zeros(AttributesInitialSize)
    /\ indexBuffer = Zeros(IndicesInitialSize)
    /\ forced = 0

BatcherNext ==
    \/ begin
    \/ \E element \in Elements : add(element)
    \/ \E t \in MeshTextures : addEmpty(EmptyElement(t, "normal"))
    \/ break_batch
    \/ finish

----------------------------------------------------------------------------
\* BaseTexture and its Resource.

MaxSize == 2
MaxDirtyId == 3
MaxDestroyCalls == 2
Resolutions == {1, 2}
\* real (pixel) sizes a resource reports; multiples of every resolution
ResourceSizes == {0, 2, 4}

\* bitTwiddle.isPow2
isPow2(v) == v \in {1, 2, 4, 8, 16, 32, 64}

\* mutant: the update id is bumped also when the texture only becomes valid
updateBumpsOnValidate(t) ==
    IF ~t.valid
    THEN IF t.width > 0 /\ t.height > 0
         THEN [t EXCEPT !.valid = TRUE,
                        !.dirtyId = @ + 1,
                        !.emitted = @ \o <<"loaded", "update">>]
         ELSE t
    ELSE [t EXCEPT !.dirtyId = @ + 1,
                   !.dirtyStyleId = @ + 1,
                   !.emitted = Append(@, "update")]

update(t) ==
    IF ~t.valid
    THEN IF t.width > 0 /\ t.height > 0
         THEN [t EXCEPT !.valid = TRUE,
                        !.emitted = @ \o <<"loaded", "update">>]
         ELSE t
    ELSE [t EXCEPT !.dirtyId = @ + 1,
                   !.dirtyStyleId = @ + 1,
                   !.emitted = Append(@, "update")]

\* resolution 0 stands for an omitted argument (resolution || this.resolution)
setSize(t, width, height, resolution) ==
    LET r == IF resolution # 0 THEN resolution ELSE t.resolution
    IN  update([t EXCEPT !.resolution = r,
                         !.width = width,
                         !.height = height,
                         !.isPowerOfTwo = isPow2(width * r) /\ isPow2(height * r)])

setRealSize(t, realWidth, realHeight) ==
    LET w == realWidth \div t.resolution
        h == realHeight \div t.resolution
    IN  update([t EXCEPT !.width = w,
                         !.height = h,
                         !.isPowerOfTwo = isPow2(w * t.resolution) /\ isPow2(h * t.resolution)])

\* The fields as the constructor leaves them before setResource.  A null
\* cacheId is the string "null"; textureCacheIdsNull is set once
\* textureCacheIds has been nulled.
Constructed(options) ==
    [width |-> options.width, height |-> options.height,
     resolution |-> options.resolution,
     isPowerOfTwo |-> FALSE, dirtyId |-> 0, dirtyStyleId |-> 0,
     cacheId |-> "null", valid |-> FALSE,
     textureCacheIds |-> << >>, textureCacheIdsNull |-> FALSE,
     destroyed |-> FALSE, resource |-> FALSE, emitted |-> << >>]

\* Resource.bind as seen from the texture: an immediate resize when the
\* resource already has a width or a height.
Resource_bind(t, res) ==
    IF res.width # 0 \/ res.height # 0
    THEN setRealSize(t, res.width, res.height)
    ELSE t

\* new BaseTexture(resource, options); hasResource = FALSE stands for null.
BaseTexture(hasResource, res, options) ==
    LET t0 == Constructed(options)
        t1 == IF hasResource THEN [Resource_bind(t0, res) EXCEPT !.resource = TRUE] ELSE t0
    IN  setSize(t1, t1.height, t1.width, t1.resolution)

NoResource == [width |-> 0, height |-> 0, destroyed |-> FALSE, bound |-> FALSE]

TextureInit ==
    \E w \in 0..MaxSize, h \in 0..MaxSize, r \in Resolutions,
       hasResource \in BOOLEAN, rw \in ResourceSizes, rh \in ResourceSizes,
       cached \in BOOLEAN :
        LET res == [width |-> rw, height |-> rh, destroyed |-> FALSE, bound |-> TRUE]
            t == BaseTexture(hasResource, res,
                             [width |-> w, height |-> h, resolution |-> r])
        IN  /\ hasResource \/ (rw = 0 /\ rh = 0)
            /\ bt = IF cached
                    THEN [t EXCEPT !.cacheId = "img", !.textureCacheIds = <<"img">>]
                    ELSE t
            /\ resource = IF hasResource THEN res ELSE NoResource
            /\ BaseTextureCache = IF cached THEN {"img"} ELSE {}
            /\ lastCall = [op |-> "constructor", width |-> w, height |-> h]
            /\ destroyCalls = 0
            /\ destroyDisposes = 0

Called(t) == [t EXCEPT !.emitted = << >>]

TexSetSize(w, h, r) ==
    /\ TextureOnly
    /\ bt.dirtyId < MaxDirtyId
    /\ bt' = setSize(Called(bt), w, h, r)
    /\ lastCall' = [op |-> "setSize", width |-> w, height |-> h]
    /\ UNCHANGED <<resource, BaseTextureCache, destroyCalls, destroyDisposes>>

TexUpdate ==
    /\ TextureOnly
    /\ bt.dirtyId < MaxDirtyId
    /\ bt' = update(Called(bt))
    /\ lastCall' = [op |-> "update", width |-> bt.width, height |-> bt.height]
    /\ UNCHANGED <<resource, BaseTextureCache, destroyCalls, destroyDisposes>>

\* Resource.resize: runs onResize (setRealSize of the bound texture) when the
\* size changes.
ResourceResize(w, h) ==
    /\ TextureOnly
    /\ bt.dirtyId < MaxDirtyId
    /\ resource.bound
    /\ ~resource.destroyed
    /\ w # resource.width \/ h # resource.height
    /\ resource' = [resource EXCEPT !.width = w, !.height = h]
    /\ bt' = setRealSize(Called(bt), w, h)
    /\ lastCall' = [op |-> "setRealSize", width |-> w, height |-> h]
    /\ UNCHANGED <<BaseTextureCache, destroyCalls, destroyDisposes>>

\* Resource.update: runs onUpdate (update of the bound texture).
ResourceUpdate ==
    /\ TextureOnly
    /\ bt.dirtyId < MaxDirtyId
    /\ resource.bound
    /\ ~resource.destroyed
    /\ bt' = update(Called(bt))
    /\ lastCall' = [op |-> "update", width |-> bt.width, height |-> bt.height]
    /\ UNCHANGED <<resource, BaseTextureCache, destroyCalls, destroyDisposes>>

\* BaseTexture.dispose
dispose(t) == [t EXCEPT !.emitted = Append(@, "dispose")]

\* BaseTexture.destroy, the texture's side
destroy(t) ==
    [dispose([t EXCEPT !.resource = FALSE, !.cacheId = "null"])
        EXCEPT !.textureCacheIds = << >>, !.textureCacheIdsNull = TRUE, !.destroyed = TRUE]

\* BaseTexture.removeFromCache(this), with the delete of cacheId before it
removeFromCache(cache, t) ==
    LET ids == IF t.textureCacheIdsNull THEN {}
               ELSE {t.textureCacheIds[i] : i \in 1..Len(t.textureCacheIds)}
    IN  (cache \ {t.cacheId}) \ ids

TexDestroy ==
    /\ TextureOnly
    /\ destroyCalls < MaxDestroyCalls
    /\ bt' = destroy(Called(bt))
    /\ resource' = IF bt.resource
                   THEN [resource EXCEPT !.bound = FALSE, !.destroyed = TRUE]
                   ELSE resource
    /\ BaseTextureCache' = removeFromCache(BaseTextureCache, bt)
    /\ lastCall' = [op |-> "destroy", width |-> bt.width, height |-> bt.height]
    /\ destroyCalls' = destroyCalls + 1
    /\ destroyDisposes' = destroyDisposes
                            + Cardinality({i \in 1..Len(bt'.emitted) : bt'.emitted[i] = "dispose"})

TexDispose ==
    /\ TextureOnly
    /\ bt' = dispose(Called(bt))
    /\ lastCall' = [op |-> "dispose", width |-> bt.width, height |-> bt.height]
    /\ UNCHANGED <<resource, BaseTextureCache, destroyCalls, destroyDisposes>>

TextureNext ==
    \/ \E w \in 0..MaxSize, h \in 0..MaxSize, r \in Resolutions \cup {0} : TexSetSize(w, h, r)
    \/ TexUpdate
    \/ \E w \in ResourceSizes, h \in ResourceSizes : ResourceResize(w, h)
    \/ ResourceUpdate
    \/ TexDestroy
    \/ TexDispose

\* The texture source left alone (the other parts' specifications).
TextureIdle ==
    /\ bt = BaseTexture(FALSE, NoResource, [width |-> 0, height |-> 0, resolution |-> 1])
    /\ resource = NoResource
    /\ BaseTextureCache = {}
    /\ lastCall = [op |-> "constructor", width |-> 0, height |-> 0]
    /\ destroyCalls = 0
    /\ destroyDisposes = 0

----------------------------------------------------------------------------
\* GlBufferSystem.

MaxUpdateID == 2
\* cap on the 'destroy' listeners the system has on one Buffer
MaxListeners == 2
ByteLengths == {4, 8}
\* the uniform binding points
BaseIndices == {0, 1}
\* uids of the Buffers the system manages
BufferIds == {1, 2}

\* buffer.descriptor.usage -> BUFFER_TYPE
BufferType(b) == IF b % 2 = 0 THEN "ELEMENT_ARRAY_BUFFER" ELSE "ARRAY_BUFFER"

NoGlBuffer == [present |-> FALSE, buffer |-> 0, updateID |-> -1, byteLength |-> -1]

\* new GlBuffer(handle, type)
GlBuffer(handle) == [present |-> TRUE, buffer |-> handle, updateID |-> -1, byteLength |-> -1]

\* gl.createBuffer(): a handle that is not live in the context (the least
\* such name; the cache never holds more handles than there are Buffers).
createBuffer == CHOOSE h \in 1..(Cardinality(BufferIds) + 1) : h \notin gl.live

\* What getGlBuffer returns and what it does to the cache and the context:
\* the cached GlBuffer, or a new one from gl.createBuffer().
getGlBuffer(b) ==
    IF gpuBuffers[b].present
    THEN [glBuffer |-> gpuBuffers[b], gl |-> gl, calls |-> << >>, created |-> FALSE]
    ELSE [glBuffer |-> GlBuffer(createBuffer),
          gl |-> [gl EXCEPT !.live = @ \cup {createBuffer}],
          calls |-> <<"createBuffer">>, created |-> TRUE]

\* createGLBuffer's buffer.on('destroy', this.onBufferDestroy, this), and its
\* this._gpuBuffers[buffer.uid] = glBuffer over an entry left null
created(b, got) ==
    /\ destroyListeners' = [destroyListeners EXCEPT ![b] = IF got.created THEN @ + 1 ELSE @]
    /\ destroyListeners'[b] <= MaxListeners
    /\ nulled' = IF got.created THEN nulled \ {b} ELSE nulled

\* gl.deleteBuffer(handle) for the handles given: they stop living, and a
\* binding point that refers to one of them is reset
deleteBuffers(context, handles) ==
    [context EXCEPT !.live = @ \ handles,
                    !.bases = [i \in BaseIndices |-> IF @[i] \in handles THEN 0 ELSE @[i]]]

bind(b) ==
    /\ BufferOnly
    /\ b \notin destroyedBuffers
    /\ LET got == getGlBuffer(b)
       IN  /\ gpuBuffers' = [gpuBuffers EXCEPT ![b] = got.glBuffer]
           /\ created(b, got)
           /\ gl' = got.gl
           /\ glCalls' = Append(got.calls, "bindBuffer")
    /\ lastOp' = [op |-> "bind", buffer |-> b, held |-> {}, thrown |-> FALSE, index |-> -1]
    /\ UNCHANGED <<buffers, destroyedBuffers, boundBufferBases>>

\* the test this.boundBufferBases[index] !== buffer comes out false
bindBufferBaseSkips(b, index) == boundBufferBases[index] = b

\* bindBufferBase(buffer, index)
bindBufferBase(b, index) ==
    /\ BufferOnly
    /\ b \notin destroyedBuffers
    /\ IF bindBufferBaseSkips(b, index)
       THEN /\ glCalls' = << >>
            /\ UNCHANGED <<gpuBuffers, gl, destroyListeners, nulled, boundBufferBases>>
       ELSE LET got == getGlBuffer(b)
            IN  /\ gpuBuffers' = [gpuBuffers EXCEPT ![b] = got.glBuffer]
                /\ created(b, got)
                /\ boundBufferBases' = [boundBufferBases EXCEPT ![index] = b]
                /\ gl' = [got.gl EXCEPT !.bases[index] = got.glBuffer.buffer]
                /\ glCalls' = Append(got.calls, "bindBufferBase")
    /\ lastOp' = [op |-> "bindBufferBase", buffer |-> b, held |-> {}, thrown |-> FALSE,
                  index |-> index]
    /\ UNCHANGED <<buffers, destroyedBuffers>>

\* mutant: the synced id is not recorded
updateGlBufferNoRecord(glBuffer, buffer) ==
    IF buffer.updateID = glBuffer.updateID
    THEN [glBuffer |-> glBuffer, calls |-> << >>]
    ELSE IF glBuffer.byteLength >= buffer.byteLength
         THEN [glBuffer |-> glBuffer,
               calls |-> <<"bindBuffer", "bufferSubData">>]
         ELSE [glBuffer |-> [glBuffer EXCEPT !.byteLength = buffer.byteLength],
               calls |-> <<"bindBuffer", "bufferData">>]

\* mutant: the recorded byteLength follows the data on every upload
updateGlBufferShrinks(glBuffer, buffer) ==
    IF buffer.updateID = glBuffer.updateID
    THEN [glBuffer |-> glBuffer, calls |-> << >>]
    ELSE IF glBuffer.byteLength >= buffer.byteLength
         THEN [glBuffer |-> [glBuffer EXCEPT !.updateID = buffer.updateID,
                                             !.byteLength = buffer.byteLength],
               calls |-> <<"bindBuffer", "bufferSubData">>]
         ELSE [glBuffer |-> [glBuffer EXCEPT !.updateID = buffer.updateID,
                                             !.byteLength = buffer.byteLength],
               calls |-> <<"bindBuffer", "bufferData">>]

\* updateBuffer after getGlBuffer: the GlBuffer as it is left, and the GL calls.
updateGlBuffer(glBuffer, buffer) ==
    IF buffer.updateID = glBuffer.updateID
    THEN [glBuffer |-> glBuffer, calls |-> << >>]
    ELSE IF glBuffer.byteLength >= buffer.byteLength
         THEN [glBuffer |-> [glBuffer EXCEPT !.updateID = buffer.updateID],
               calls |-> <<"bindBuffer", "bufferSubData">>]
         ELSE [glBuffer |-> [glBuffer EXCEPT !.updateID = buffer.updateID,
                                             !.byteLength = buffer.byteLength],
               calls |-> <<"bindBuffer", "bufferData">>]

updateBuffer(b) ==
    /\ BufferOnly
    /\ b \notin destroyedBuffers
    /\ LET got == getGlBuffer(b)
           done == updateGlBuffer(got.glBuffer, buffers[b])
       IN  /\ gpuBuffers' = [gpuBuffers EXCEPT ![b] = done.glBuffer]
           /\ created(b, got)
           /\ gl' = got.gl
           /\ glCalls' = got.calls \o done.calls
    /\ lastOp' = [op |-> "updateBuffer", buffer |-> b, held |-> {}, thrown |-> FALSE, index |-> -1]
    /\ UNCHANGED <<buffers, destroyedBuffers, boundBufferBases>>

\* Buffer.update() / a new data array: the CPU side marks itself changed.
bufferChanged(b, byteLength) ==
    /\ BufferOnly
    /\ b \notin destroyedBuffers
    /\ buffers[b].updateID < MaxUpdateID
    /\ buffers' = [buffers EXCEPT ![b] = [updateID |-> @.updateID + 1, byteLength |-> byteLength]]
    /\ glCalls' = << >>
    /\ lastOp' = [op |-> "bufferChanged", buffer |-> b, held |-> {}, thrown |-> FALSE, index |-> -1]
    /\ UNCHANGED <<gpuBuffers, gl, destroyListeners, nulled, destroyedBuffers,
                   boundBufferBases>>

Held == {b \in BufferIds : gpuBuffers[b].present}

\* the entries destroyAll's for (const id in this._gpuBuffers) reaches: the
\* keys are walked in ascending order, and an entry that onBufferDestroy left
\* null makes this._gpuBuffers[id].buffer throw
Deletable ==
    IF nulled = {} THEN Held ELSE {b \in Held : \A n \in nulled : b < n}

\* destroyAll(contextLost): gl.deleteBuffer for every GlBuffer held unless the
\* context is lost; the cache is emptied.
\* mutant: the contextLost flag is ignored
destroyAllCallsAlways(contextLost) ==
    [i \in 1..Cardinality(Deletable) |-> "deleteBuffer"]

destroyAllCalls(contextLost) ==
    IF contextLost THEN << >> ELSE [i \in 1..Cardinality(Deletable) |-> "deleteBuffer"]

\* destroyAll(false): an entry left null throws, and the cache is then left
\* as it is
destroyAll ==
    /\ BufferOnly
    /\ Held \cup nulled # {}
    /\ gl' = deleteBuffers(gl, {gpuBuffers[b].buffer : b \in Deletable})
    /\ glCalls' = destroyAllCalls(FALSE)
    /\ gpuBuffers' = IF nulled = {}
                     THEN [b \in BufferIds |-> NoGlBuffer]
                     ELSE gpuBuffers
    /\ nulled' = nulled
    /\ lastOp' = [op |-> "destroyAll", buffer |-> 0, held |-> Held,
                  thrown |-> nulled # {}, index |-> -1]
    /\ UNCHANGED <<buffers, destroyListeners, destroyedBuffers, boundBufferBases>>

\* contextChange: destroyAll(true), then this.gl = renderer.gl (a new context,
\* in which no handle of the old one lives).
contextChange ==
    /\ BufferOnly
    /\ gl' = [live |-> {}, bases |-> [i \in BaseIndices |-> 0]]
    /\ glCalls' = destroyAllCalls(TRUE)
    /\ gpuBuffers' = [b \in BufferIds |-> NoGlBuffer]
    /\ nulled' = {}
    /\ lastOp' = [op |-> "contextChange", buffer |-> 0, held |-> Held, thrown |-> FALSE, index |-> -1]
    /\ UNCHANGED <<buffers, destroyListeners, destroyedBuffers, boundBufferBases>>

\* this.onBufferDestroy(buffer), called by the Buffer's 'destroy' event once
\* per listener, from listener i on: the event carries no contextLost, and a
\* throwing listener ends the emit
RECURSIVE onBufferDestroy(_, _, _)
onBufferDestroy(listeners, i, done) ==
    IF i > listeners \/ done.thrown THEN done
    ELSE onBufferDestroy(listeners, i + 1,
             IF done.glBuffer.present
             THEN [glBuffer |-> NoGlBuffer, nulled |-> TRUE, thrown |-> FALSE,
                   calls |-> Append(done.calls, "deleteBuffer"),
                   deleted |-> done.deleted \cup {done.glBuffer.buffer}]
             ELSE [done EXCEPT !.thrown = TRUE])

\* buffer.destroy(): emits 'destroy'
bufferDestroy(b) ==
    /\ BufferOnly
    /\ b \notin destroyedBuffers
    /\ LET done == onBufferDestroy(destroyListeners[b], 1,
                       [glBuffer |-> gpuBuffers[b], nulled |-> b \in nulled,
                        thrown |-> FALSE, calls |-> << >>, deleted |-> {}, index |-> -1])
       IN  /\ gpuBuffers' = [gpuBuffers EXCEPT ![b] = done.glBuffer]
           /\ nulled' = IF done.nulled THEN nulled \cup {b} ELSE nulled
           /\ gl' = deleteBuffers(gl, done.deleted)
           /\ glCalls' = done.calls
           /\ lastOp' = [op |-> "destroy", buffer |-> b, held |-> Held,
                         thrown |-> done.thrown, index |-> -1]
    /\ destroyedBuffers' = destroyedBuffers \cup {b}
    /\ UNCHANGED <<buffers, destroyListeners, boundBufferBases>>

BufferIdle ==
    /\ buffers = [b \in BufferIds |-> [updateID |-> 1, byteLength |-> 4]]
    /\ gpuBuffers = [b \in BufferIds |-> NoGlBuffer]
    /\ gl = [live |-> {}, bases |-> [i \in BaseIndices |-> 0]]
    /\ boundBufferBases = [i \in BaseIndices |-> 0]
    /\ glCalls = << >>
    /\ destroyListeners = [b \in BufferIds |-> 0]
    /\ nulled = {}
    /\ destroyedBuffers = {}
    /\ lastOp = [op |-> "constructor", buffer |-> 0, held |-> {}, thrown |-> FALSE, index |-> -1]

BufferInit ==
    /\ buffers \in [BufferIds -> [updateID : {1}, byteLength : ByteLengths]]
    /\ gpuBuffers = [b \in BufferIds |-> NoGlBuffer]
    /\ gl = [live |-> {}, bases |-> [i \in BaseIndices |-> 0]]
    /\ boundBufferBases = [i \in BaseIndices |-> 0]
    /\ glCalls = << >>
    /\ destroyListeners = [b \in BufferIds |-> 0]
    /\ nulled = {}
    /\ destroyedBuffers = {}
    /\ lastOp = [op |-> "constructor", buffer |-> 0, held |-> {}, thrown |-> FALSE, index |-> -1]

BufferNext ==
    \/ \E b \in BufferIds : bind(b)
    \/ \E b \in BufferIds : updateBuffer(b)
    \/ \E b \in BufferIds, n \in ByteLengths : bufferChanged(b, n)
    \/ destroyAll
    \/ contextChange
    \/ \E b \in BufferIds : bufferDestroy(b)

\* The uniform binding points: the buffer system without the uploads
BaseNext ==
    \/ \E b \in BufferIds, index \in BaseIndices : bindBufferBase(b, index)
    \/ \E b \in BufferIds : bind(b)
    \/ destroyAll
    \/ contextChange
    \/ \E b \in BufferIds : bufferDestroy(b)

----------------------------------------------------------------------------
\* TransformBase.  Matrices are records a, b, c, d, tx, ty; points are records
\* x, y.  Angles are whole quarter turns, so that cos and sin are integers.

\* caps on the setter notifications and on the compositions, over all nodes
MaxLocalID == 2
MaxWorldID == 3
Nodes == {1, 2, 3}
Positions == {[x |-> 0, y |-> 0], [x |-> 3, y |-> 1]}
Scales == {[x |-> 1, y |-> 1], [x |-> 2, y |-> 3]}
Pivots == {[x |-> 0, y |-> 0], [x |-> 1, y |-> 0]}
Skews == {[x |-> 0, y |-> 0], [x |-> 0, y |-> 1]}
Rotations == {0, 1}

\* Math.cos / Math.sin of q quarter turns
Cos(q) == CASE q % 4 = 0 -> 1 [] q % 4 = 1 -> 0 [] q % 4 = 2 -> -1 [] OTHER -> 0
Sin(q) == CASE q % 4 = 0 -> 0 [] q % 4 = 1 -> 1 [] q % 4 = 2 -> 0 [] OTHER -> -1

\* new Matrix()
Matrix == [a |-> 1, b |-> 0, c |-> 0, d |-> 1, tx |-> 0, ty |-> 0]

\* new TransformBase(cache).  assigned and seen are history: whether a setter
\* notified the transform since its last updateTransform, and the parent
\* _worldID at its last composition.
TransformBase(cache) ==
    [cache |-> cache,
     worldTransform |-> Matrix,
     localTransform |-> Matrix,
     _worldID |-> 0,
     _parentID |-> 0,
     position |-> [x |-> 0, y |-> 0],
     scale |-> [x |-> 1, y |-> 1],
     pivot |-> [x |-> 0, y |-> 0],
     skew |-> [x |-> 0, y |-> 0],
     _rotation |-> 0,
     _cx |-> 1, _sx |-> 0, _cy |-> 0, _sy |-> 1,
     _localID |-> 0,
     _currentLocalID |-> 0,
     assigned |-> FALSE,
     seen |-> 0]

\* TransformBase.IDENTITY
IDENTITY == TransformBase(TRUE)

onChange(t) == [t EXCEPT !._localID = @ + 1, !.assigned = TRUE]

updateSkew(t) ==
    [t EXCEPT !._cx = Cos(t._rotation + t.skew.y),
              !._sx = Sin(t._rotation + t.skew.y),
              !._cy = 0 - Sin(t._rotation - t.skew.x),
              !._sy = Cos(t._rotation - t.skew.x),
              !._localID = @ + 1,
              !.assigned = TRUE]

\* The local matrix of the transform's fields (the body of the first branch
\* of updateTransform and of updateLocalTransform).
localMatrix(t) ==
    LET a == t._cx * t.scale.x
        b == t._sx * t.scale.x
        c == t._cy * t.scale.y
        d == t._sy * t.scale.y
    IN  [a |-> a, b |-> b, c |-> c, d |-> d,
         tx |-> t.position.x - ((t.pivot.x * a) + (t.pivot.y * c)),
         ty |-> t.position.y - ((t.pivot.x * b) + (t.pivot.y * d))]

\* mutant: the parent's translation is not added
concatNoTranslate(lt, pt) ==
    [a |-> (lt.a * pt.a) + (lt.b * pt.c),
     b |-> (lt.a * pt.b) + (lt.b * pt.d),
     c |-> (lt.c * pt.a) + (lt.d * pt.c),
     d |-> (lt.c * pt.b) + (lt.d * pt.d),
     tx |-> (lt.tx * pt.a) + (lt.ty * pt.c),
     ty |-> (lt.tx * pt.b) + (lt.ty * pt.d)]

\* "concat the parent matrix with the objects transform"
concat(lt, pt) ==
    [a |-> (lt.a * pt.a) + (lt.b * pt.c),
     b |-> (lt.a * pt.b) + (lt.b * pt.d),
     c |-> (lt.c * pt.a) + (lt.d * pt.c),
     d |-> (lt.c * pt.b) + (lt.d * pt.d),
     tx |-> (lt.tx * pt.a) + (lt.ty * pt.c) + pt.tx,
     ty |-> (lt.tx * pt.b) + (lt.ty * pt.d) + pt.ty]

updateLocalTransform(t) ==
    IF ~t.cache \/ t._localID # t._currentLocalID
    THEN [t EXCEPT !.localTransform = localMatrix(t),
                   !._currentLocalID = t._localID,
                   !._parentID = -1]
    ELSE t

\* mutant: the cached ids are not consulted
updateTransformAlways(t, parentTransform) ==
    LET t1 == [t EXCEPT !.localTransform = localMatrix(t),
                        !._currentLocalID = t._localID,
                        !._parentID = -1]
    IN  [t1 EXCEPT !.worldTransform = concat(t1.localTransform, parentTransform.worldTransform),
                   !._parentID = parentTransform._worldID,
                   !._worldID = @ + 1,
                   !.assigned = FALSE,
                   !.seen = parentTransform._worldID]

updateTransform(t, parentTransform) ==
    LET t1 == IF ~t.cache \/ t._localID # t._currentLocalID
              THEN [t EXCEPT !.localTransform = localMatrix(t),
                             !._currentLocalID = t._localID,
                             !._parentID = -1]
              ELSE t
        t2 == IF ~t1.cache \/ t1._parentID # parentTransform._worldID
              THEN [t1 EXCEPT !.worldTransform =
                                  concat(t1.localTransform, parentTransform.worldTransform),
                              !._parentID = parentTransform._worldID,
                              !._worldID = @ + 1,
                              !.seen = parentTransform._worldID]
              ELSE t1
    IN  [t2 EXCEPT !.assigned = FALSE]

RECURSIVE Sum(_, _)
Sum(f, S) == IF S = {} THEN 0 ELSE LET n == CHOOSE n \in S : TRUE IN f[n] + Sum(f, S \ {n})

Notifications(trs) == Sum([n \in Nodes |-> trs[n]._localID], Nodes)
Compositions(trs) == Sum([n \in Nodes |-> trs[n]._worldID], Nodes)

\* The transform passed as parentTransform: a node's, or TransformBase.IDENTITY.
Parent(p) == IF p = 0 THEN IDENTITY ELSE tr[p]

\* position, scale, pivot: an ObservablePoint that calls onChange when its
\* value changes if the transform caches, a plain Point otherwise.
setPoint(t, field, value) ==
    LET t1 == [t EXCEPT ![field] = value]
    IN  IF t.cache
        THEN IF t[field] # value THEN onChange(t1) ELSE t
        ELSE t1

TrSet(n, field, value) ==
    /\ TransformOnly
    /\ tr' = [tr EXCEPT ![n] = setPoint(@, field, value)]
    /\ Notifications(tr') <= MaxLocalID
    /\ lastT' = [op |-> "set", node |-> 0, parent |-> 0]

\* skew: an ObservablePoint that calls updateSkew when its value changes.
TrSetSkew(n, value) ==
    /\ TransformOnly
    /\ tr' = [tr EXCEPT ![n] = IF @.skew # value
                                THEN updateSkew([@ EXCEPT !.skew = value])
                                ELSE @]
    /\ Notifications(tr') <= MaxLocalID
    /\ lastT' = [op |-> "set", node |-> 0, parent |-> 0]

\* set rotation(value)
TrSetRotation(n, value) ==
    /\ TransformOnly
    /\ tr' = [tr EXCEPT ![n] = updateSkew([@ EXCEPT !._rotation = value])]
    /\ Notifications(tr') <= MaxLocalID
    /\ lastT' = [op |-> "set", node |-> 0, parent |-> 0]

TrUpdateLocalTransform(n) ==
    /\ TransformOnly
    /\ tr' = [tr EXCEPT ![n] = updateLocalTransform(@)]
    /\ lastT' = [op |-> "updateLocalTransform", node |-> n, parent |-> 0]

TrUpdateTransform(n, p) ==
    /\ TransformOnly
    /\ tr' = [tr EXCEPT ![n] = updateTransform(@, Parent(p))]
    /\ Compositions(tr') <= MaxWorldID
    /\ lastT' = [op |-> "updateTransform", node |-> n, parent |-> p]

TransformIdle ==
    /\ tr = [n \in Nodes |-> TransformBase(TRUE)]
    /\ lastT = [op |-> "constructor", node |-> 0, parent |-> 0]

TransformInit ==
    /\ tr = [n \in Nodes |-> TransformBase(TRUE)]
    /\ lastT = [op |-> "constructor", node |-> 0, parent |-> 0]

\* The scene: node 1 is the root (its parent transform is IDENTITY), node 2 is
\* its child, node 3 is a child of node 1 or of node 2 (it can be moved).
ParentsOf(n) == IF n = 3 THEN {1, 2} ELSE {n - 1}

TransformNext ==
    \/ \E n \in Nodes, v \in Positions : TrSet(n, "position", v)
    \/ \E n \in Nodes, v \in Scales : TrSet(n, "scale", v)
    \/ \E v \in Pivots : TrSet(3, "pivot", v)
    \/ \E v \in Skews : TrSetSkew(3, v)
    \/ \E n \in Nodes, v \in Rotations : TrSetRotation(n, v)
    \/ TrUpdateLocalTransform(3)    \* called on the leaf only
    \/ \E n \in Nodes : \E p \in ParentsOf(n) : TrUpdateTransform(n, p)

\* A transform whose fields were set after construction and before its first
\* update.
Configured(position, scale, rotation) ==
    LET t1 == setPoint(TransformBase(TRUE), "position", position)
        t2 == setPoint(t1, "scale", scale)
    IN  IF rotation = 0 THEN t2 ELSE updateSkew([t2 EXCEPT !._rotation = rotation])

\* The chain 1 -> 2 -> 3 with fields set, before the first frame; each frame
\* updates the nodes against their parents.
ChainInit ==
    /\ tr \in [Nodes -> {Configured(position, scale, rotation) :
                            position \in Positions, scale \in Scales, rotation \in Rotations}]
    /\ lastT = [op |-> "constructor", node |-> 0, parent |-> 0]

ChainNext == \E n \in Nodes : TrUpdateTransform(n, n - 1)

\* The update pass over the chain 1 -> 2 -> 3: updateTransform on every node,
\* parent before child, the root against TransformBase.IDENTITY.  Between two
\* passes the fields are assigned.  lastT.changed is history: the nodes with a
\* field whose value was changed since the last pass; a pass records them as
\* consumed.
Assigned(op, n, was, is) ==
    [op |-> op, node |-> n, parent |-> 0,
     changed |-> IF was # is THEN lastT.changed \cup {n} ELSE lastT.changed,
     consumed |-> {}]

PassSet(n, field, value) ==
    /\ TransformOnly
    /\ tr' = [tr EXCEPT ![n] = setPoint(@, field, value)]
    /\ Notifications(tr') <= MaxLocalID
    /\ lastT' = Assigned(field, n, tr[n][field], value)

PassSetSkew(n, value) ==
    /\ TransformOnly
    /\ tr' = [tr EXCEPT ![n] = IF @.skew # value
                                THEN updateSkew([@ EXCEPT !.skew = value])
                                ELSE @]
    /\ Notifications(tr') <= MaxLocalID
    /\ lastT' = Assigned("skew", n, tr[n].skew, value)

PassSetRotation(n, value) ==
    /\ TransformOnly
    /\ tr' = [tr EXCEPT ![n] = updateSkew([@ EXCEPT !._rotation = value])]
    /\ Notifications(tr') <= MaxLocalID
    /\ lastT' = Assigned("rotation", n, tr[n]._rotation, value)

updatePass(trs) ==
    LET t1 == updateTransform(trs[1], IDENTITY)
        t2 == updateTransform(trs[2], t1)
        t3 == updateTransform(trs[3], t2)
    IN  <<t1, t2, t3>>

PassUpdate ==
    /\ TransformOnly
    /\ tr' = updatePass(tr)
    /\ \A n \in Nodes : tr'[n]._worldID <= MaxWorldID
    /\ lastT' = [op |-> "pass", node |-> 0, parent |-> 0,
                 changed |-> {}, consumed |-> lastT.changed]

PassInit ==
    /\ tr = [n \in Nodes |-> TransformBase(TRUE)]
    /\ lastT = [op |-> "constructor", node |-> 0, parent |-> 0,
                changed |-> {}, consumed |-> {}]

PassNext ==
    \/ \E n \in Nodes, v \in Positions : PassSet(n, "position", v)
    \/ \E n \in Nodes, v \in Scales : PassSet(n, "scale", v)
    \/ \E v \in Pivots : PassSet(3, "pivot", v)
    \/ \E v \in Skews : PassSetSkew(3, v)
    \/ \E n \in Nodes, v \in Rotations : PassSetRotation(n, v)
    \/ PassUpdate

----------------------------------------------------------------------------
\* BoundsBuilder.

\* Infinity: above every coordinate of the model
Infinity == 1000000

\* new BoundsBuilder(), and the fields after clear()
Cleared == [minX |-> Infinity, minY |-> Infinity, maxX |-> 0 - Infinity, maxY |-> 0 - Infinity]

isEmpty(b) == b.minX > b.maxX \/ b.minY > b.maxY

\* new Rectangle(x, y, width, height); Rectangle.EMPTY
Rectangle(x, y, width, height) == [x |-> x, y |-> y, width |-> width, height |-> height]
EMPTY == Rectangle(0, 0, 0, 0)

getRectangle(b) ==
    IF b.minX > b.maxX \/ b.minY > b.maxY
    THEN EMPTY
    ELSE Rectangle(b.minX, b.minY, b.maxX - b.minX, b.maxY - b.minY)

\* one corner: minX = x < minX ? x : minX; ...
addCorner(b, x, y) ==
    [minX |-> IF x < b.minX THEN x ELSE b.minX,
     minY |-> IF y < b.minY THEN y ELSE b.minY,
     maxX |-> IF x > b.maxX THEN x ELSE b.maxX,
     maxY |-> IF y > b.maxY THEN y ELSE b.maxY]

\* mutant: the running minimum and maximum start from 0
addFrameFromZero(b, transform, x0, y0, x1, y1) ==
    LET m == transform.worldTransform
        b0 == [minX |-> 0, minY |-> 0, maxX |-> 0, maxY |-> 0]
        b1 == addCorner(b0, (m.a * x0) + (m.c * y0) + m.tx, (m.b * x0) + (m.d * y0) + m.ty)
        b2 == addCorner(b1, (m.a * x1) + (m.c * y0) + m.tx, (m.b * x1) + (m.d * y0) + m.ty)
        b3 == addCorner(b2, (m.a * x0) + (m.c * y1) + m.tx, (m.b * x0) + (m.d * y1) + m.ty)
    IN  addCorner(b3, (m.a * x1) + (m.c * y1) + m.tx, (m.b * x1) + (m.d * y1) + m.ty)

addFrame(b, transform, x0, y0, x1, y1) ==
    LET m == transform.worldTransform
        b1 == addCorner(b, (m.a * x0) + (m.c * y0) + m.tx, (m.b * x0) + (m.d * y0) + m.ty)
        b2 == addCorner(b1, (m.a * x1) + (m.c * y0) + m.tx, (m.b * x1) + (m.d * y0) + m.ty)
        b3 == addCorner(b2, (m.a * x0) + (m.c * y1) + m.tx, (m.b * x0) + (m.d * y1) + m.ty)
    IN  addCorner(b3, (m.a * x1) + (m.c * y1) + m.tx, (m.b * x1) + (m.d * y1) + m.ty)

\* The transforms whose frames are added: identity, moved to (5, 15), and
\* turned, scaled and moved ones, each after its updateTransform.
Updated(position, scale, rotation) == updateTransform(Configured(position, scale, rotation), IDENTITY)

FrameTransforms ==
    {IDENTITY,
     Updated([x |-> 5, y |-> 15], [x |-> 1, y |-> 1], 0),
     Updated([x |-> 3, y |-> 1], [x |-> 2, y |-> 3], 1),
     Updated([x |-> 0, y |-> 0], [x |-> -1, y |-> 1], 0)}

\* x0, y0, x1, y1
Frames == {<<0, 0, 10, 11>>, <<-2, -3, 4, 1>>, <<1, 2, 3, 7>>}

BoundsClear ==
    /\ BoundsOnly
    /\ bb' = Cleared
    /\ lastB' = [op |-> "clear", transform |-> IDENTITY, frame |-> <<0, 0, 0, 0>>]

BoundsAddFrame(transform, f) ==
    /\ BoundsOnly
    /\ bb' = addFrame(bb, transform, f[1], f[2], f[3], f[4])
    /\ lastB' = [op |-> "addFrame", transform |-> transform, frame |-> f]

BoundsInit ==
    /\ bb = Cleared
    /\ lastB = [op |-> "constructor", transform |-> IDENTITY, frame |-> <<0, 0, 0, 0>>]

BoundsNext ==
    \/ BoundsClear
    \/ \E transform \in FrameTransforms, f \in Frames : BoundsAddFrame(transform, f)

----------------------------------------------------------------------------
\* TextureGarbageCollector.  The texture manager (bindTexture, updateTexture,
\* destroyTexture) is the renderer's.

MaxCount == 4
\* this.maxIdle and this.checkCountMax, scaled down
maxIdle == 1
checkCountMax == 2
GcTextureIds == {1, 2, 3}

\* tm.destroyTexture(texture, true): the backend texture is released, the
\* texture itself and the managed list are left alone.
destroyTexture(textures, id) == [textures EXCEPT ![id].glTexture = FALSE]

\* The first loop of run(), from entry i on: idle textures are released and
\* their entries set to null.
RECURSIVE sweep(_, _, _, _)
sweep(count, textures, managed, i) ==
    IF i > Len(managed)
    THEN [textures |-> textures, managed |-> managed, wasRemoved |-> FALSE]
    ELSE LET texture == textures[managed[i]]
         IN  IF ~texture._glRenderTargets /\ count - texture.touched > maxIdle
             THEN [sweep(count, destroyTexture(textures, managed[i]),
                         [managed EXCEPT ![i] = 0], i + 1)
                     EXCEPT !.wasRemoved = TRUE]
             ELSE sweep(count, textures, managed, i + 1)

\* The second loop of run(): the entries that are not null, moved to the front.
compact(managed) == SelectSeq(managed, LAMBDA id : id # 0)

\* mutant: the list is not compacted
runNoCompact(count, textures, managed) ==
    LET swept == sweep(count, textures, managed, 1)
    IN  [textures |-> swept.textures, managed |-> swept.managed]

run(count, textures, managed) ==
    LET swept == sweep(count, textures, managed, 1)
    IN  [textures |-> swept.textures,
         managed |-> IF swept.wasRemoved THEN compact(swept.managed) ELSE swept.managed]

GcRun ==
    /\ GcOnly
    /\ LET r == run(gc.count, gcTextures, managedTextures)
       IN  /\ gcTextures' = r.textures
           /\ managedTextures' = r.managed
    /\ lastG' = [op |-> "run", ran |-> TRUE]
    /\ UNCHANGED gc

GcUpdate ==
    /\ GcOnly
    /\ gc.count < MaxCount
    /\ LET count == gc.count + 1
           checkCount == gc.checkCount + 1
       IN  IF gc.mode = "MANUAL"
           THEN /\ gc' = [gc EXCEPT !.count = count]
                /\ lastG' = [op |-> "update", ran |-> FALSE]
                /\ UNCHANGED <<gcTextures, managedTextures>>
           ELSE IF checkCount > checkCountMax
           THEN LET r == run(count, gcTextures, managedTextures)
                IN  /\ gc' = [gc EXCEPT !.count = count, !.checkCount = 0]
                    /\ gcTextures' = r.textures
                    /\ managedTextures' = r.managed
                    /\ lastG' = [op |-> "update", ran |-> TRUE]
           ELSE /\ gc' = [gc EXCEPT !.count = count, !.checkCount = checkCount]
                /\ lastG' = [op |-> "update", ran |-> FALSE]
                /\ UNCHANGED <<gcTextures, managedTextures>>

\* The renderer binds a texture: touched = gc.count, and a texture without a
\* backend texture gets one and joins the managed list.
GcBindTexture(id) ==
    /\ GcOnly
    /\ ~gcTextures[id].destroyed
    /\ gcTextures' = [gcTextures EXCEPT ![id].touched = gc.count, ![id].glTexture = TRUE]
    /\ managedTextures' = IF gcTextures[id].glTexture
                          THEN managedTextures
                          ELSE Append(managedTextures, id)
    /\ lastG' = [op |-> "bindTexture", ran |-> FALSE]
    /\ UNCHANGED gc

GcIdle ==
    /\ gc = [count |-> 0, checkCount |-> 0, mode |-> "DEFAULT"]
    /\ gcTextures = [id \in GcTextureIds |->
                        [touched |-> 0, _glRenderTargets |-> FALSE,
                         glTexture |-> FALSE, destroyed |-> FALSE]]
    /\ managedTextures = << >>
    /\ lastG = [op |-> "constructor", ran |-> FALSE]

GcInit ==
    /\ \E mode \in {"DEFAULT", "MANUAL"} : gc = [count |-> 0, checkCount |-> 0, mode |-> mode]
    /\ \E renderTargets \in SUBSET GcTextureIds :
          gcTextures = [id \in GcTextureIds |->
                           [touched |-> 0, _glRenderTargets |-> id \in renderTargets,
                            glTexture |-> FALSE, destroyed |-> FALSE]]
    /\ managedTextures = << >>
    /\ lastG = [op |-> "constructor", ran |-> FALSE]

GcNext ==
    \/ GcRun
    \/ GcUpdate
    \/ \E id \in GcTextureIds : GcBindTexture(id)

----------------------------------------------------------------------------
\* CanvasRenderTarget.  Sizes passed in are counted in halves (3 is 1.5), so
\* that Math.round has something to round; canvas sizes are whole numbers.

\* the widths and heights passed in, in halves
Halves == {0, 1, 3, 4}
CanvasResolutions == {1, 2}

\* Math.round of h halves: floor(h / 2 + 0.5)
round(h) == (h + 1) \div 2

\* canvas === null is canvasNull; its width and height are then meaningless
CrtResized(t, desiredWidth, desiredHeight) ==
    IF ~t.canvasNull
    THEN [t EXCEPT !.width = round(desiredWidth * t.resolution),
                   !.height = round(desiredHeight * t.resolution)]
    ELSE t

CanvasRenderTarget(width, height, resolution) ==
    CrtResized([canvasNull |-> FALSE, contextNull |-> FALSE, width |-> 300, height |-> 150,
                resolution |-> resolution],
               width, height)

Returned(op, value) == [op |-> op, threw |-> FALSE, value |-> value]
Threw(op) == [op |-> op, threw |-> TRUE, value |-> 0]

CrtClear ==
    /\ CanvasOnly
    /\ lastR' = Returned("clear", 0)
    /\ UNCHANGED crt

CrtResize(desiredWidth, desiredHeight) ==
    /\ CanvasOnly
    /\ crt' = CrtResized(crt, desiredWidth, desiredHeight)
    /\ lastR' = Returned("resize", 0)

CrtDestroy ==
    /\ CanvasOnly
    /\ crt' = [crt EXCEPT !.contextNull = TRUE, !.canvasNull = TRUE, !.width = 0, !.height = 0]
    /\ lastR' = Returned("destroy", 0)

CrtGetWidth ==
    /\ CanvasOnly
    /\ lastR' = IF ~crt.canvasNull THEN Returned("get width", crt.width) ELSE Threw("get width")
    /\ UNCHANGED crt

CrtSetWidth(val) ==
    /\ CanvasOnly
    /\ crt' = IF ~crt.canvasNull THEN [crt EXCEPT !.width = round(val)] ELSE crt
    /\ lastR' = Returned("set width", 0)

CrtGetHeight ==
    /\ CanvasOnly
    /\ lastR' = IF ~crt.canvasNull THEN Returned("get height", crt.height) ELSE Threw("get height")
    /\ UNCHANGED crt

CrtSetHeight(val) ==
    /\ CanvasOnly
    /\ crt' = IF ~crt.canvasNull THEN [crt EXCEPT !.height = round(val)] ELSE crt
    /\ lastR' = Returned("set height", 0)

CanvasIdle ==
    /\ crt = CanvasRenderTarget(0, 0, 1)
    /\ lastR = Returned("constructor", 0)

CanvasInit ==
    /\ \E width \in Halves, height \in Halves, resolution \in CanvasResolutions :
          crt = CanvasRenderTarget(width, height, resolution)
    /\ lastR = Returned("constructor", 0)

CanvasNext ==
    \/ CrtClear
    \/ \E desiredWidth \in Halves, desiredHeight \in Halves : CrtResize(desiredWidth, desiredHeight)
    \/ CrtDestroy
    \/ CrtGetWidth
    \/ \E val \in Halves : CrtSetWidth(val)
    \/ CrtGetHeight
    \/ \E val \in Halves : CrtSetHeight(val)

----------------------------------------------------------------------------
\* Program.from and the Preprocessor.  A source is its text and whether it
\* has white space around it; a preprocessed source is the trimmed source
\* with its #define lines and precision header.

MaxPrograms == 2
VertexSources == {[text |-> "void main(){}", padded |-> FALSE],
                  [text |-> "void main(){}", padded |-> TRUE],
                  [text |-> "#version 300 es", padded |-> FALSE]}
FragmentSources == {[text |-> "void main(){}", padded |-> FALSE]}
ShaderNames == {"pixi-shader", "my shader"}
ProgramArgs ==
    [vertexSrc : VertexSources, fragmentSrc : FragmentSources,
     name : ShaderNames, isRawShader : BOOLEAN]

\* String.prototype.trim
trim(src) == [src EXCEPT !.padded = FALSE]

\* name.replace(/\s+/g, '-')
dashed(name) == IF name = "my shader" THEN "my-shader" ELSE name

\* new Preprocessor(vertexSrc, fragmentSrc, name, options): its vertex and
\* fragment, and the nameCache it leaves.  A numbered name is the name and
\* its count (count 1: the bare name).
Preprocessor(cache, vertexSrc, fragmentSrc, name, isRawShader) ==
    LET vertex == trim(vertexSrc)
        fragment == trim(fragmentSrc)
        raw == isRawShader \/ vertex.text = "#version 300 es"
        n == dashed(name)
        count == cache[n] + 1
        SHADER_NAME == [SHADER_NAME |-> n, count |-> count]
    IN  IF raw
        THEN [vertex |-> [src |-> vertex, defines |-> << >>, precision |-> FALSE],
              fragment |-> [src |-> fragment, defines |-> << >>, precision |-> FALSE],
              nameCache |-> cache]
        ELSE [vertex |-> [src |-> vertex, defines |-> <<SHADER_NAME>>, precision |-> TRUE],
              fragment |-> [src |-> fragment, defines |-> <<SHADER_NAME>>, precision |-> TRUE],
              nameCache |-> [cache EXCEPT ![n] = count]]

\* Program.from(vertexSrc, fragmentSrc, name, options)
ProgramFrom(args) ==
    /\ ProgramOnly
    /\ LET preprocessor == Preprocessor(nameCache, args.vertexSrc, args.fragmentSrc,
                                        args.name, args.isRawShader)
           key == <<preprocessor.vertex, preprocessor.fragment>>
           cached == {e \in ProgramCache : e.key = key}
           program == IF cached # {} THEN (CHOOSE e \in cached : TRUE).program ELSE UID
       IN  /\ cached = {} => UID < MaxPrograms
           /\ nameCache' = preprocessor.nameCache
           /\ ProgramCache' = IF cached # {}
                              THEN ProgramCache
                              ELSE ProgramCache \cup {[key |-> key, program |-> UID]}
           /\ UID' = IF cached # {} THEN UID ELSE UID + 1
           /\ fromReturned' = [fromReturned EXCEPT ![args] = @ \cup {program}]
           /\ lastP' = [args |-> args, program |-> program, constructed |-> cached = {}]

NoArgs == [vertexSrc |-> [text |-> "", padded |-> FALSE],
           fragmentSrc |-> [text |-> "", padded |-> FALSE],
           name |-> "", isRawShader |-> FALSE]

ProgramInit ==
    /\ nameCache = [n \in {dashed(name) : name \in ShaderNames} |-> 0]
    /\ ProgramCache = {}
    /\ UID = 0
    /\ fromReturned = [args \in ProgramArgs |-> {}]
    /\ lastP = [args |-> NoArgs, program |-> -1, constructed |-> FALSE]

ProgramNext == \E args \in ProgramArgs : ProgramFrom(args)

----------------------------------------------------------------------------
\* The Shader constructor, addResource and destroy.  An optional value is a
\* sequence of at most one element: << >> is undefined (or null), <<v>> is v.
\* A record of resources is the sequence of its entries in key order; a
\* group map, and a GpuProgram's structsAndGroups.groups, is the sequence of
\* its { group, binding, name } entries in iteration order.

Undefined == << >>
Some(v) == <<v>>

WEBGL == 1
WEBGPU == 2

GroupsData(group, binding, name) == [group |-> group, binding |-> binding, name |-> name]

\* new BindGroup(), and bindGroup.setResource(resource, index); createdBy is
\* history: who called new BindGroup()
BindGroup == [resources |-> << >>, createdBy |-> "shader"]
setResource(bindGroup, value, index) ==
    [bindGroup EXCEPT !.resources = (index :> value) @@ @]

GpuPrograms ==
    {Undefined,
     Some(<<GroupsData(0, 0, "uTexture")>>),
     Some(<<GroupsData(0, 0, "uTexture"), GroupsData(1, 0, "uColor")>>)}
GlPrograms == {Undefined, Some("glProgram")}
ShaderGroupsGiven ==
    {Undefined,
     Some(<< >>),
     Some(0 :> [setResource(BindGroup, "texture", 0) EXCEPT !.createdBy = "caller"])}
ShaderResourcesGiven ==
    {Undefined,
     Some(<< >>),
     Some(<<[name |-> "uTexture", value |-> "texture"]>>),
     Some(<<[name |-> "uColor", value |-> "struct"],
            [name |-> "uTexture", value |-> "buffer"]>>),
     Some(<<[name |-> "uTexture", value |-> "null"]>>)}
GroupMaps == {Undefined, Some(<< >>), Some(<<GroupsData(0, 0, "uTexture")>>)}
CompatibleRenderers == {Undefined, Some(0)}
ShaderDescriptor ==
    [gpuProgram : GpuPrograms, glProgram : GlPrograms, groups : ShaderGroupsGiven,
     resources : ShaderResourcesGiven, groupMap : GroupMaps,
     compatibleRenderers : CompatibleRenderers]

\* nameHash[data.name] = data, for each entry in order: the last one stays
nameHashOf(groupData) ==
    [name \in {groupData[i].name : i \in DOMAIN groupData} |->
        groupData[CHOOSE i \in DOMAIN groupData :
                     /\ groupData[i].name = name
                     /\ \A j \in DOMAIN groupData : groupData[j].name = name => j <= i]]

\* groupMap[data.group][data.binding] = data.name, for each entry in order
groupMapOf(groupData) ==
    {groupData[i] : i \in {i \in DOMAIN groupData :
        \A j \in DOMAIN groupData :
            (groupData[j].group = groupData[i].group
                /\ groupData[j].binding = groupData[i].binding) => j <= i}}

\* the dummy bind group 99 of a shader without a GpuProgram: one binding
\* per resource, numbered by bindTick
dummyGroupData(resources) ==
    [i \in DOMAIN resources |-> GroupsData(99, i - 1, resources[i].name)]

\* for (const i in resources) { ... groups[data.group].setResource(value, data.binding) }
\* from entry i on; built holds the groups, the owned bind groups and the error
RECURSIVE bindResources(_, _, _, _)
bindResources(resources, nameHash, i, built) ==
    IF i > Len(resources) THEN built
    ELSE LET name == resources[i].name
             given == resources[i].value
         IN  IF given = "null"
             THEN [built EXCEPT !.thrown = "TypeError"]
             ELSE LET value == IF given = "struct" THEN "UniformGroup" ELSE given
                  IN  IF name \notin DOMAIN nameHash
                      THEN bindResources(resources, nameHash, i + 1, built)
                      ELSE LET data == nameHash[name]
                               fresh == data.group \notin DOMAIN built.groups
                               group == IF fresh THEN BindGroup ELSE built.groups[data.group]
                           IN  bindResources(resources, nameHash, i + 1,
                                   [built EXCEPT
                                       !.groups = (data.group :> setResource(group, value, data.binding)) @@ @,
                                       !._ownedBindGroups = IF fresh THEN Append(@, data.group) ELSE @])

\* mutant: resources given together with groups are accepted, the groups dropped
ShaderBranchLenient(gpuProgram, groups, resources, groupMap) ==
    IF resources # Undefined /\ groups # Undefined THEN "resources"
    ELSE IF gpuProgram = Undefined /\ groups # Undefined /\ groupMap = Undefined THEN "noGroupMap"
    ELSE IF gpuProgram = Undefined /\ groups # Undefined /\ groupMap # Undefined THEN "groupMap"
    ELSE IF gpuProgram # Undefined /\ groups # Undefined /\ groupMap = Undefined THEN "gpuProgram"
    ELSE IF resources # Undefined THEN "resources"
    ELSE "groups"

\* the if / else-if chain of the constructor: the branch it takes
ShaderBranch(gpuProgram, groups, resources, groupMap) ==
    IF resources # Undefined /\ groups # Undefined THEN "both"
    ELSE IF gpuProgram = Undefined /\ groups # Undefined /\ groupMap = Undefined THEN "noGroupMap"
    ELSE IF gpuProgram = Undefined /\ groups # Undefined /\ groupMap # Undefined THEN "groupMap"
    ELSE IF gpuProgram # Undefined /\ groups # Undefined /\ groupMap = Undefined THEN "gpuProgram"
    ELSE IF resources # Undefined THEN "resources"
    ELSE "groups"

NoShader ==
    [constructed |-> FALSE, thrown |-> "", gpuProgram |-> Undefined, glProgram |-> Undefined,
     compatibleRenderers |-> 0, groups |-> Undefined, _uniformBindMap |-> Undefined,
     _ownedBindGroups |-> Undefined, resources |-> Undefined]

ShaderThrew(message) == [NoShader EXCEPT !.thrown = message]

\* new Shader(options): the shader, or the error thrown
Shader(options) ==
    LET gpuProgram == options.gpuProgram
        glProgram == options.glProgram
        compatibleRenderers ==
            IF options.compatibleRenderers = Undefined
            THEN (IF gpuProgram # Undefined THEN WEBGPU ELSE 0)
                    + (IF glProgram # Undefined THEN WEBGL ELSE 0)
            ELSE options.compatibleRenderers[1]
        groups == options.groups
        resources == IF options.resources = Undefined /\ groups = Undefined
                     THEN Some(<< >>)
                     ELSE options.resources
        groupMap == options.groupMap
        branch == ShaderBranch(gpuProgram, groups, resources, groupMap)
        this(shaderGroups, groupData, owned) ==
            [constructed |-> TRUE, thrown |-> "", gpuProgram |-> gpuProgram,
             glProgram |-> glProgram, compatibleRenderers |-> compatibleRenderers,
             groups |-> Some(shaderGroups), _uniformBindMap |-> Some(groupMapOf(groupData)),
             _ownedBindGroups |-> Some(owned), resources |-> Some(nameHashOf(groupData))]
    IN  CASE branch = "both" ->
                ShaderThrew("[Shader] Cannot have both resources and groups")
          [] branch = "noGroupMap" ->
                ShaderThrew("[Shader] No group map or WebGPU shader provided - consider using resources instead.")
          [] branch = "groupMap" ->
                [this(groups[1], groupMap[1], << >>) EXCEPT
                    !.resources = Some(nameHashOf(groupMap[1]))]
          [] branch = "gpuProgram" ->
                this(groups[1], gpuProgram[1], << >>)
          [] branch = "resources" ->
                LET groupData == IF gpuProgram = Undefined
                                 THEN dummyGroupData(resources[1])
                                 ELSE gpuProgram[1]
                    built == bindResources(resources[1], nameHashOf(groupData), 1,
                                 [groups |-> << >>,
                                  _ownedBindGroups |-> IF gpuProgram = Undefined
                                                       THEN <<99>> ELSE << >>,
                                  thrown |-> ""])
                IN  IF built.thrown # ""
                    THEN ShaderThrew(built.thrown)
                    ELSE this(built.groups, groupData, built._ownedBindGroups)
          [] OTHER ->
                [this(groups[1], groupMap[1], << >>) EXCEPT !.resources = Some(<< >>)]

ShaderNew(options) ==
    /\ ShaderOnly
    /\ shader' = Shader(options)
    /\ lastS' = [op |-> "constructor", options |-> Some(options), thrown |-> shader'.thrown]

\* shader.addResource(name, groupIndex, bindIndex)
ShaderAddResource(name, groupIndex, bindIndex) ==
    /\ ShaderOnly
    /\ shader.constructed
    /\ IF shader._uniformBindMap = Undefined
       THEN /\ shader' = shader
            /\ lastS' = [op |-> "addResource", options |-> Undefined, thrown |-> "TypeError"]
       ELSE LET map == shader._uniformBindMap[1]
                groups == shader.groups[1]
                mapped == \E d \in map : d.group = groupIndex /\ d.binding = bindIndex
                fresh == groupIndex \notin DOMAIN groups
            IN  /\ shader' = [shader EXCEPT
                      !._uniformBindMap = IF mapped THEN @
                          ELSE Some(map \cup {GroupsData(groupIndex, bindIndex, name)}),
                      !.groups = IF fresh THEN Some((groupIndex :> BindGroup) @@ groups) ELSE @,
                      !._ownedBindGroups = IF fresh THEN Some(Append(@[1], groupIndex)) ELSE @]
                /\ lastS' = [op |-> "addResource", options |-> Undefined, thrown |-> ""]

\* mutant: destroy() destroys every bind group of this.groups
destroyedBindGroupsAll(this) ==
    LET groups == this.groups[1]
    IN  [i \in 1..Cardinality(DOMAIN groups) |->
            CHOOSE k \in DOMAIN groups : Cardinality({j \in DOMAIN groups : j < k}) = i - 1]

\* this._ownedBindGroups.forEach((bindGroup) => bindGroup.destroy()): the keys
\* of the bind groups destroyed, in order
destroyedBindGroups(this) == this._ownedBindGroups[1]

\* shader.destroy(destroyPrograms); lastS records the event emitted and what
\* was destroyed
ShaderDestroy(destroyPrograms) ==
    /\ ShaderOnly
    /\ shader.constructed
    /\ LET programs == IF destroyPrograms
                       THEN {p \in {"gpuProgram", "glProgram"} : shader[p] # Undefined}
                       ELSE {}
       IN  IF shader._ownedBindGroups = Undefined
           THEN /\ shader' = shader
                /\ lastS' = [op |-> "destroy", options |-> Some(destroyPrograms), thrown |-> "TypeError",
                             emitted |-> <<"destroy">>, programs |-> programs,
                             bindGroups |-> << >>]
           ELSE /\ shader' = [NoShader EXCEPT !.constructed = TRUE,
                                  !.compatibleRenderers = shader.compatibleRenderers]
                /\ lastS' = [op |-> "destroy", options |-> Some(destroyPrograms), thrown |-> "",
                             emitted |-> <<"destroy">>, programs |-> programs,
                             bindGroups |-> destroyedBindGroups(shader)]

ShaderIdle ==
    /\ shader = NoShader
    /\ lastS = [op |-> "none", options |-> Undefined, thrown |-> ""]

ShaderInit == ShaderIdle

ShaderNext ==
    \/ \E options \in ShaderDescriptor : ShaderNew(options)
    \/ \E name \in {"uTexture", "uExtra"}, groupIndex \in {0, 1} :
          ShaderAddResource(name, groupIndex, 0)
    \/ \E destroyPrograms \in BOOLEAN : ShaderDestroy(destroyPrograms)

----------------------------------------------------------------------------
\* Several BaseTextures: BaseTexture.from and the BaseTextureCache, and
\* Resources shared between textures.  Textures and resources are numbered
\* from 1; 0 stands for null (no resource, no cache entry).  The listeners of
\* a Resource are its onResize and onUpdate runners, which bind, unbind and
\* destroy change together.

MaxBaseTextures == 3
BaseTextureIds == 1..MaxBaseTextures
Sources == {"a.png", "canvas"}

\* the cache id of a source: the string itself, or the element's _pixiId
cacheIdOf(source) == IF source = "canvas" THEN "pixiid_1" ELSE source
CacheIds == {cacheIdOf(source) : source \in Sources}

NoBaseTexture ==
    [created |-> FALSE, resource |-> 0, cacheId |-> "null", textureCacheIds |-> << >>,
     textureCacheIdsNull |-> FALSE, destroyed |-> FALSE]
NoSharedResource ==
    [created |-> FALSE, listeners |-> {}, listenersNull |-> FALSE, destroyed |-> FALSE]

\* the next object to be constructed
Fresh(objects) == CHOOSE i \in DOMAIN objects : ~objects[i].created /\ \A j \in 1..(i - 1) : objects[j].created

\* mutant: destroy() leaves the cache alone
BaseTexture_removeFromCacheNot(cache, t) == cache

\* destroy(): delete BaseTextureCache[this.cacheId], and
\* BaseTexture.removeFromCache(this)
BaseTexture_removeFromCache(cache, t) ==
    LET ids == IF t.textureCacheIdsNull THEN {}
               ELSE {t.textureCacheIds[i] : i \in 1..Len(t.textureCacheIds)}
    IN  [id \in CacheIds |-> IF id = t.cacheId \/ id \in ids THEN 0 ELSE cache[id]]

TcCalled(op, source, texture, thrown, constructed, notified) ==
    [op |-> op, source |-> source, texture |-> texture, thrown |-> thrown,
     constructed |-> constructed, notified |-> notified]

\* BaseTexture.from(source)
TcFrom(source) ==
    /\ CacheOnly
    /\ LET cacheId == cacheIdOf(source)
           baseTexture == textureCache[cacheId]
       IN  IF baseTexture # 0
           THEN /\ lastFrom' = [lastFrom EXCEPT ![source] = baseTexture]
                /\ lastC' = TcCalled("from", source, baseTexture, "", FALSE, {})
                /\ UNCHANGED <<baseTextures, sharedResources, textureCache>>
           ELSE /\ \E t \in BaseTextureIds : ~baseTextures[t].created
                /\ \E r \in BaseTextureIds : ~sharedResources[r].created
                /\ LET t == Fresh(baseTextures)
                       r == Fresh(sharedResources)
                   IN  /\ baseTextures' = [baseTextures EXCEPT ![t] =
                              [NoBaseTexture EXCEPT !.created = TRUE, !.resource = r,
                                  !.cacheId = cacheId, !.textureCacheIds = <<cacheId>>]]
                       /\ sharedResources' = [sharedResources EXCEPT ![r] =
                              [NoSharedResource EXCEPT !.created = TRUE, !.listeners = {t}]]
                       /\ textureCache' = [textureCache EXCEPT ![cacheId] = t]
                       /\ lastFrom' = [lastFrom EXCEPT ![source] = t]
                       /\ lastC' = TcCalled("from", source, t, "", TRUE, {t})

\* new BaseTexture(resource), resource an existing Resource: setResource
\* binds the texture to it
TcNew(r) ==
    /\ CacheOnly
    /\ sharedResources[r].created
    /\ \E t \in BaseTextureIds : ~baseTextures[t].created
    /\ IF sharedResources[r].listenersNull
       THEN /\ lastC' = TcCalled("constructor", "", 0, "TypeError", FALSE, {})
            /\ UNCHANGED <<baseTextures, sharedResources, textureCache, lastFrom>>
       ELSE LET t == Fresh(baseTextures)
            IN  /\ baseTextures' = [baseTextures EXCEPT ![t] =
                       [NoBaseTexture EXCEPT !.created = TRUE, !.resource = r]]
                /\ sharedResources' = [sharedResources EXCEPT ![r].listeners = @ \cup {t}]
                /\ lastC' = TcCalled("constructor", "", t, "", TRUE, {})
                /\ UNCHANGED <<textureCache, lastFrom>>

\* baseTexture.destroy(): resource.unbind(this), resource.destroy(), the
\* cache deletes, dispose
TcDestroy(t) ==
    /\ CacheOnly
    /\ baseTextures[t].created
    /\ LET r == baseTextures[t].resource
       IN  IF r # 0 /\ sharedResources[r].listenersNull
           THEN /\ lastC' = TcCalled("destroy", "", t, "TypeError", FALSE, {})
                /\ UNCHANGED <<baseTextures, sharedResources, textureCache, lastFrom>>
           ELSE /\ sharedResources' =
                      IF r = 0 THEN sharedResources
                      ELSE [sharedResources EXCEPT ![r] =
                               [@ EXCEPT !.listeners = {}, !.listenersNull = TRUE,
                                         !.destroyed = TRUE]]
                /\ baseTextures' = [baseTextures EXCEPT ![t] =
                       [@ EXCEPT !.resource = 0, !.cacheId = "null",
                                 !.textureCacheIds = << >>, !.textureCacheIdsNull = TRUE,
                                 !.destroyed = TRUE]]
                /\ textureCache' = BaseTexture_removeFromCache(textureCache, baseTextures[t])
                /\ lastC' = TcCalled("destroy", "", t, "", FALSE, {})
                /\ UNCHANGED lastFrom

\* resource.resize(width, height) with a new size: onResize.run
TcResourceResize(r) ==
    /\ CacheOnly
    /\ sharedResources[r].created
    /\ lastC' = IF sharedResources[r].listenersNull
                THEN TcCalled("resize", "", r, "TypeError", FALSE, {})
                ELSE TcCalled("resize", "", r, "", FALSE, sharedResources[r].listeners)
    /\ UNCHANGED <<baseTextures, sharedResources, textureCache, lastFrom>>

\* resource.update(): onUpdate.run unless destroyed
TcResourceUpdate(r) ==
    /\ CacheOnly
    /\ sharedResources[r].created
    /\ lastC' = TcCalled("update", "", r, "", FALSE,
                         IF sharedResources[r].destroyed THEN {}
                         ELSE sharedResources[r].listeners)
    /\ UNCHANGED <<baseTextures, sharedResources, textureCache, lastFrom>>

CacheIdle ==
    /\ baseTextures = [t \in BaseTextureIds |-> NoBaseTexture]
    /\ sharedResources = [r \in BaseTextureIds |-> NoSharedResource]
    /\ textureCache = [id \in CacheIds |-> 0]
    /\ lastFrom = [source \in Sources |-> 0]
    /\ lastC = TcCalled("none", "", 0, "", FALSE, {})

CacheInit == CacheIdle

CacheNext ==
    \/ \E source \in Sources : TcFrom(source)
    \/ \E r \in BaseTextureIds : TcNew(r)
    \/ \E t \in BaseTextureIds : TcDestroy(t)
    \/ \E r \in BaseTextureIds : TcResourceResize(r)
    \/ \E r \in BaseTextureIds : TcResourceUpdate(r)

----------------------------------------------------------------------------
\* The InteractionManager and the display objects it crawls.  The scene is
\* root 1 with children 2, 3 (in that order), and 3 with child 4; 2 and 4
\* are sprites (containsPoint), 1 and 3 are containers, 3 with or without a
\* hitArea.  No object has a mask or a filterArea.  The pointer is at one of
\* four points; 2 covers a and b, 4 covers b and c, the hitArea of 3 covers a
\* and b.  Button 0 is the left button, 2 the right one.

DisplayObjects == 1..4
Points == {"a", "b", "c", "off"}
Buttons == {0, 2}
interactionFrequency == 10
DeltaTimes == {5, 10}

childrenOf(o) == CASE o = 1 -> <<2, 3>> [] o = 3 -> <<4>> [] OTHER -> << >>

\* displayObject.children: the children still attached
children(objects, o) == SelectSeq(childrenOf(o), LAMBDA c : objects[c].parent = o)

\* displayObject.containsPoint(point), false where there is no such method
containsPoint(o, point) ==
    point \in (CASE o = 2 -> {"a", "b"} [] o = 4 -> {"b", "c"} [] OTHER -> {})

\* displayObject.hitArea.contains(...)
hitAreaContains(o, point) == point \in {"a", "b"}

\* A display object: its flags, what its handlers do (stops: the events whose
\* handler calls stopPropagation; removes: its handler detaches it from its
\* parent when it is reported hit), and the manager's marks on it.
DisplayObject(parent, interactive) ==
    [parent |-> parent, visible |-> TRUE, interactive |-> interactive,
     interactiveChildren |-> TRUE, hitArea |-> FALSE, stops |-> {}, removes |-> FALSE,
     _over |-> FALSE, _isLeftDown |-> FALSE, _isRightDown |-> FALSE]

parentOf(o) == CASE o = 1 -> 0 [] o = 4 -> 3 [] OTHER -> 1

\* What a pass has done so far in a container's loop over its children, and
\* what processInteractive returns with its hit.
Crawl(hit, hitTest, interactiveParent, calls, tests) ==
    [hit |-> hit, hitTest |-> hitTest, interactiveParent |-> interactiveParent,
     calls |-> calls, tests |-> tests]

RECURSIVE processInteractive(_, _, _, _, _)
RECURSIVE forChildrenKeepsTesting(_, _, _, _, _)
RECURSIVE forChildren(_, _, _, _, _)

\* mutant: a hit child does not switch hit testing off for its siblings
forChildrenKeepsTesting(objects, point, ch, i, crawl) ==
    IF i = 0 THEN crawl
    ELSE LET child == ch[i]
             r == processInteractive(objects, point, child, crawl.hitTest,
                                     crawl.interactiveParent)
             passed == [crawl EXCEPT !.calls = @ \o r.calls, !.tests = @ \o r.tests]
             lost == r.hit /\ objects[child].interactive /\ objects[child].removes
         IN  IF r.hit /\ ~lost
             THEN forChildrenKeepsTesting(objects, point, ch, i - 1,
                      [passed EXCEPT !.hit = TRUE, !.interactiveParent = FALSE])
             ELSE forChildrenKeepsTesting(objects, point, ch, i - 1, passed)

\* for (let i = children.length-1; i >= 0; i--) { ... }, from child i down.
\* A child has lost its parent when its callback, called with hit = true,
\* detached it.
forChildren(objects, point, ch, i, crawl) ==
    IF i = 0 THEN crawl
    ELSE LET child == ch[i]
             r == processInteractive(objects, point, child, crawl.hitTest,
                                     crawl.interactiveParent)
             passed == [crawl EXCEPT !.calls = @ \o r.calls, !.tests = @ \o r.tests]
             lost == r.hit /\ objects[child].interactive /\ objects[child].removes
         IN  IF r.hit /\ ~lost
             THEN forChildren(objects, point, ch, i - 1,
                      [passed EXCEPT !.hit = TRUE, !.interactiveParent = FALSE,
                                     !.hitTest = FALSE])
             ELSE forChildren(objects, point, ch, i - 1, passed)

\* processInteractive(point, displayObject, func, hitTest, interactive): its
\* return value, the calls func(displayObject, hit) and the hit tests, in order
processInteractive(objects, point, o, hitTest, interactive) ==
    IF o = 0 \/ ~objects[o].visible
    THEN Crawl(FALSE, hitTest, FALSE, << >>, << >>)
    ELSE LET displayObject == objects[o]
             isInteractive == displayObject.interactive \/ interactive
             interactiveParent == isInteractive /\ ~displayObject.hitArea
             start == Crawl(FALSE, hitTest, interactiveParent, << >>, << >>)
             ch == children(objects, o)
             crawl == IF displayObject.interactiveChildren
                      THEN forChildren(objects, point, ch, Len(ch), start)
                      ELSE start
             testing == isInteractive /\ crawl.hitTest /\ ~crawl.hit
             hit == IF testing
                    THEN IF displayObject.hitArea
                         THEN hitAreaContains(o, point)
                         ELSE containsPoint(o, point)
                    ELSE crawl.hit
         IN  Crawl(hit, crawl.hitTest, crawl.interactiveParent,
                   IF isInteractive /\ displayObject.interactive
                   THEN Append(crawl.calls, [displayObject |-> o, hit |-> hit])
                   ELSE crawl.calls,
                   IF testing
                   THEN Append(crawl.tests, [displayObject |-> o, hit |-> hit])
                   ELSE crawl.tests)

\* dispatchEvent(displayObject, eventString, eventData); the handler of a
\* delivered event may call eventData.stopPropagation()
dispatchEvent(st, o, eventString) ==
    LET event == [target |-> o, type |-> eventString]
    IN  IF st.stopped
        THEN [st EXCEPT !.dispatched = Append(@, event)]
        ELSE [st EXCEPT !.dispatched = Append(@, event),
                        !.delivered = Append(@, event),
                        !.stopped = eventString \in st.objects[o].stops]

isDownOf(button) == IF button = 2 THEN "_isRightDown" ELSE "_isLeftDown"

processMouseDown(st, o, hit, button) ==
    IF hit
    THEN dispatchEvent([st EXCEPT !.objects[o][isDownOf(button)] = TRUE], o,
                       IF button = 2 THEN "rightdown" ELSE "mousedown")
    ELSE st

\* mutant: the down mark outlives the mouseup
processMouseUpKeepsDown(st, o, hit, button) ==
    LET isDown == isDownOf(button)
        up == IF hit
              THEN dispatchEvent(st, o, IF button = 2 THEN "rightup" ELSE "mouseup")
              ELSE st
    IN  IF ~st.objects[o][isDown] THEN up
        ELSE dispatchEvent(up, o,
                 IF hit THEN (IF button = 2 THEN "rightclick" ELSE "click")
                 ELSE (IF button = 2 THEN "rightupoutside" ELSE "mouseupoutside"))

processMouseUp(st, o, hit, button) ==
    LET isDown == isDownOf(button)
        up == IF hit
              THEN dispatchEvent(st, o, IF button = 2 THEN "rightup" ELSE "mouseup")
              ELSE st
    IN  IF ~st.objects[o][isDown] THEN up
        ELSE dispatchEvent([up EXCEPT !.objects[o][isDown] = FALSE], o,
                 IF hit THEN (IF button = 2 THEN "rightclick" ELSE "click")
                 ELSE (IF button = 2 THEN "rightupoutside" ELSE "mouseupoutside"))

processMouseOverOut(st, o, hit) ==
    IF hit = st.objects[o]._over THEN st
    ELSE dispatchEvent([st EXCEPT !.objects[o]._over = hit], o,
                       IF hit THEN "mouseover" ELSE "mouseout")

\* moveWhenInside is false
processMouseMove(st, o, hit) ==
    dispatchEvent(processMouseOverOut(st, o, hit), o, "mousemove")

\* the calls func(displayObject, hit) of one pass, from call i on
RECURSIVE funcs(_, _, _, _, _)
funcs(func, calls, i, st, button) ==
    IF i > Len(calls) THEN st
    ELSE LET o == calls[i].displayObject
             hit == calls[i].hit
         IN  funcs(func, calls, i + 1,
                   CASE func = "processMouseDown" -> processMouseDown(st, o, hit, button)
                     [] func = "processMouseUp" -> processMouseUp(st, o, hit, button)
                     [] func = "processMouseMove" -> processMouseMove(st, o, hit)
                     [] OTHER -> processMouseOverOut(st, o, hit),
                   button)

\* One pass over the scene from the root, with the callback func; the next
\* state of the manager, the objects and the histories.
ImPass(op, func, point, button, hitTest, stopped) ==
    \E crawl \in {processInteractive(displayObjects, point, 1, hitTest, FALSE)} :
    \E st \in {funcs(func, crawl.calls, 1,
                      [objects |-> displayObjects, stopped |-> stopped,
                       dispatched |-> << >>, delivered |-> << >>], button)} :
        LET got(o) == {i \in DOMAIN st.delivered :
                          /\ st.delivered[i].target = o
                          /\ st.delivered[i].type \in {"mouseover", "mouseout"}}
            wasHit(o) == \E i \in DOMAIN crawl.calls :
                            crawl.calls[i].displayObject = o /\ crawl.calls[i].hit
        IN  /\ displayObjects' = st.objects
            /\ eventData' = [stopped |-> st.stopped]
            /\ mouse' = [global |-> point]
            /\ pressed' = [o \in DisplayObjects |-> [b \in Buttons |->
                   CASE func = "processMouseDown" /\ b = button -> pressed[o][b] \/ wasHit(o)
                     [] func = "processMouseUp" /\ b = button -> FALSE
                     [] OTHER -> pressed[o][b]]]
            /\ lastOverOut' = [o \in DisplayObjects |->
                   IF got(o) = {} THEN lastOverOut[o]
                   ELSE st.delivered[CHOOSE i \in got(o) : TRUE].type]
            /\ lastI' = [op |-> op, button |-> button, calls |-> crawl.calls,
                         tests |-> crawl.tests, dispatched |-> st.dispatched,
                         delivered |-> st.delivered]

ImMouseDown(point, button) ==
    /\ MouseOnly
    /\ ImPass("onMouseDown", "processMouseDown", point, button, TRUE, FALSE)
    /\ UNCHANGED <<didMove, _deltaTime>>

ImMouseUp(point, button) ==
    /\ MouseOnly
    /\ ImPass("onMouseUp", "processMouseUp", point, button, TRUE, FALSE)
    /\ UNCHANGED <<didMove, _deltaTime>>

ImMouseMove(point) ==
    /\ MouseOnly
    /\ ImPass("onMouseMove", "processMouseMove", point, 0, TRUE, FALSE)
    /\ didMove' = TRUE
    /\ UNCHANGED _deltaTime

ImMouseOut(point) ==
    /\ MouseOnly
    /\ ImPass("onMouseOut", "processMouseOverOut", point, 0, FALSE, FALSE)
    /\ UNCHANGED <<didMove, _deltaTime>>

\* update(deltaTime), called by the ticker; eventData.stopped is as the last
\* event left it
ImUpdate(deltaTime) ==
    /\ MouseOnly
    /\ IF _deltaTime + deltaTime < interactionFrequency
       THEN /\ _deltaTime' = _deltaTime + deltaTime
            /\ lastI' = [op |-> "update", button |-> 0, calls |-> << >>, tests |-> << >>,
                         dispatched |-> << >>, delivered |-> << >>]
            /\ UNCHANGED <<displayObjects, eventData, mouse, didMove, pressed, lastOverOut>>
       ELSE /\ _deltaTime' = 0
            /\ IF didMove
               THEN /\ didMove' = FALSE
                    /\ lastI' = [op |-> "update", button |-> 0, calls |-> << >>,
                                 tests |-> << >>, dispatched |-> << >>, delivered |-> << >>]
                    /\ UNCHANGED <<displayObjects, eventData, mouse, pressed, lastOverOut>>
               ELSE /\ ImPass("update", "processMouseOverOut", mouse.global, 0, TRUE,
                              eventData.stopped)
                    /\ UNCHANGED didMove

\* processInteractive(point, root, func, hitTest) with a callback that only
\* takes note of its calls, and detaches the objects that do so when hit
ImProcessInteractive(point, hitTest) ==
    /\ MouseOnly
    /\ \E crawl \in {processInteractive(displayObjects, point, 1, hitTest, FALSE)} :
       LET lost == {crawl.calls[i].displayObject : i \in
                       {i \in DOMAIN crawl.calls :
                           crawl.calls[i].hit /\ displayObjects[crawl.calls[i].displayObject].removes}}
       IN  /\ displayObjects' = [o \in DisplayObjects |->
                  IF o \in lost THEN [displayObjects[o] EXCEPT !.parent = 0]
                  ELSE displayObjects[o]]
           /\ lastI' = [op |-> "processInteractive", button |-> 0, calls |-> crawl.calls,
                        tests |-> crawl.tests, dispatched |-> << >>, delivered |-> << >>]
           /\ mouse' = [global |-> point]
    /\ UNCHANGED <<eventData, didMove, _deltaTime, pressed, lastOverOut>>

\* The manager after its constructor, over the scene s
Interaction(s) ==
    /\ displayObjects = s
    /\ eventData = [stopped |-> FALSE]
    /\ mouse = [global |-> "off"]
    /\ didMove = FALSE
    /\ _deltaTime = 0
    /\ pressed = [o \in DisplayObjects |-> [b \in Buttons |-> FALSE]]
    /\ lastOverOut = [o \in DisplayObjects |-> "none"]
    /\ lastI = [op |-> "constructor", button |-> 0, calls |-> << >>, tests |-> << >>,
                dispatched |-> << >>, delivered |-> << >>]

InteractionIdle ==
    Interaction([o \in DisplayObjects |-> DisplayObject(parentOf(o), FALSE)])

\* The mouse: 2, 3 and 4 are interactive; the handlers of 4 stop no event,
\* or 'mouseover', or 'mouseup'.
StopsOf4 == {{}, {"mouseover"}, {"mouseup", "rightup"}}

MouseInit ==
    \E stops \in StopsOf4 :
        Interaction([o \in DisplayObjects |->
            [DisplayObject(parentOf(o), o # 1) EXCEPT !.stops = IF o = 4 THEN stops ELSE {}]])

MousePoints == {"a", "b", "off"}

MouseNext ==
    \/ \E point \in MousePoints, button \in Buttons : ImMouseDown(point, button)
    \/ \E point \in MousePoints, button \in Buttons : ImMouseUp(point, button)
    \/ \E point \in MousePoints : ImMouseMove(point)
    \/ \E point \in MousePoints : ImMouseOut(point)
    \/ \E deltaTime \in DeltaTimes : ImUpdate(deltaTime)

\* The crawl alone, over scenes of all kinds
HitInit ==
    \E interactive \in SUBSET DisplayObjects, invisible \in {{}, {2}, {3}, {4}},
       removes \in {{}, {2}, {3}, {4}}, hitArea \in BOOLEAN, interactiveChildren \in BOOLEAN :
        Interaction([o \in DisplayObjects |->
            [DisplayObject(parentOf(o), o \in interactive) EXCEPT
                !.visible = o \notin invisible,
                !.removes = o \in removes,
                !.hitArea = (o = 3 /\ hitArea),
                !.interactiveChildren = (o # 3 \/ interactiveChildren)]])

HitNext == \E point \in Points, hitTest \in BOOLEAN : ImProcessInteractive(point, hitTest)

----------------------------------------------------------------------------
\* RopeGeometry.

MaxPoints == 4
\* the points a rope is made of
RopePoints == {"p", "q"}
TextureScales == {0, 1}

\* arr[i] = v on a typed array: a store past the end is dropped
Store(arr, i, v) == IF i < Len(arr) THEN [arr EXCEPT ![i + 1] = v] ELSE arr

\* the value a Uint16Array keeps
Uint16(x) == x % 65536

\* a uv is a fraction, kept as its two terms (0 / 0 is NaN)
Frac(num, den) == [num |-> num, den |-> den]

\* a vertex coordinate: the point it was computed from, its axis and its side
\* of the rope; NoCoord is the 0 of a fresh array
Coord(point, axis, side) == [point |-> point, axis |-> axis, side |-> side]
NoCoord == Coord("", "", 0)

\* the uvs loop of build(), from i on; stretch is true: amount is
\* i / (total - 1)
RECURSIVE buildUvs(_, _, _)
buildUvs(uvs, i, total) ==
    IF i >= total THEN uvs
    ELSE LET index == i * 4
             amount == Frac(i, total - 1)
         IN  buildUvs(Store(Store(Store(Store(uvs, index, amount), index + 1, Frac(0, 1)),
                                  index + 2, amount), index + 3, Frac(1, 1)),
                      i + 1, total)

\* the indices loop of build(), from i on
RECURSIVE buildIndices(_, _, _)
buildIndices(indices, i, total) ==
    IF i >= total - 1 THEN indices
    ELSE LET index == i * 2
             indexCount == i * 6
         IN  buildIndices(
                 Store(Store(Store(Store(Store(Store(indices,
                     indexCount, Uint16(index)),
                     indexCount + 1, Uint16(index + 1)),
                     indexCount + 2, Uint16(index + 2)),
                     indexCount + 3, Uint16(index + 2)),
                     indexCount + 4, Uint16(index + 1)),
                     indexCount + 5, Uint16(index + 3)),
                 i + 1, total)

\* updateVertices(): two vertices per point, on either side of it
RECURSIVE writeVertices(_, _, _)
writeVertices(vertices, points, i) ==
    IF i >= Len(points) THEN vertices
    ELSE LET point == At(points, i)
             index == i * 4
         IN  writeVertices(
                 Store(Store(Store(Store(vertices,
                     index, Coord(point, "x", 1)),
                     index + 1, Coord(point, "y", 1)),
                     index + 2, Coord(point, "x", -1)),
                     index + 3, Coord(point, "y", -1)),
                 points, i + 1)

updateVertices(g) ==
    IF Len(g.points) < 1 THEN g
    ELSE [g EXCEPT !.vertices = writeVertices(g.vertices, g.points, 0)]

\* new Float32Array(n), new Uint16Array(n), filled with the zero given
TypedArray(n, zero) == [i \in 1..n |-> zero]

\* uvs[0] = 0; uvs[1] = 0; uvs[2] = 0; uvs[3] = 1
firstUvs(uvs) ==
    Store(Store(Store(Store(uvs, 0, Frac(0, 1)), 1, Frac(0, 1)), 2, Frac(0, 1)), 3, Frac(1, 1))

\* mutant: the three arrays are kept when the number of points has changed
buildKeepsArrays(g) ==
    IF Len(g.points) < 1 THEN g
    ELSE updateVertices([g EXCEPT !.uvs = buildUvs(firstUvs(@), 0, Len(g.points)),
                                  !.indices = buildIndices(@, 0, Len(g.points))])

build(g) ==
    IF Len(g.points) < 1 THEN g
    ELSE LET total == Len(g.points)
             sized == IF Len(g.vertices) # total * 4
                      THEN [g EXCEPT !.vertices = TypedArray(total * 4, NoCoord),
                                     !.uvs = TypedArray(total * 4, Frac(0, 1)),
                                     !.indices = TypedArray((total - 1) * 6, 0)]
                      ELSE g
         IN  updateVertices([sized EXCEPT !.uvs = buildUvs(firstUvs(@), 0, total),
                                          !.indices = buildIndices(@, 0, total)])

\* new RopeGeometry(width, points, true, textureScale)
RopeGeometry(points, textureScale) ==
    build([points |-> points, textureScale |-> textureScale,
           vertices |-> TypedArray(Len(points) * 4, NoCoord),
           uvs |-> TypedArray(Len(points) * 4, Frac(0, 1)),
           indices |-> TypedArray((Len(points) - 1) * 6, 0)])

\* points.push(point), points.pop(): the caller manipulates the points
RopePush(point) ==
    /\ RopeOnly
    /\ Len(rope.points) < MaxPoints
    /\ rope' = [rope EXCEPT !.points = Append(@, point)]
    /\ lastRope' = [op |-> "push"]

RopePop ==
    /\ RopeOnly
    /\ Len(rope.points) > 1
    /\ rope' = [rope EXCEPT !.points = SubSeq(@, 1, Len(@) - 1)]
    /\ lastRope' = [op |-> "pop"]

RopeBuild ==
    /\ RopeOnly
    /\ rope' = build(rope)
    /\ lastRope' = [op |-> "build"]

RopeUpdateVertices ==
    /\ RopeOnly
    /\ rope' = updateVertices(rope)
    /\ lastRope' = [op |-> "updateVertices"]

\* update(): build() if textureScale > 0, updateVertices() otherwise
RopeUpdate ==
    /\ RopeOnly
    /\ rope' = IF rope.textureScale > 0 THEN build(rope) ELSE updateVertices(rope)
    /\ lastRope' = [op |-> IF rope.textureScale > 0 THEN "build" ELSE "updateVertices"]

RopeIdle ==
    /\ rope = RopeGeometry(<<"p", "q">>, 1)
    /\ lastRope = [op |-> "constructor"]

RopeInit ==
    /\ \E n \in 1..MaxPoints, textureScale \in TextureScales :
          \E points \in [1..n -> RopePoints] : rope = RopeGeometry(points, textureScale)
    /\ lastRope = [op |-> "constructor"]

RopeNext ==
    \/ \E point \in RopePoints : RopePush(point)
    \/ RopePop
    \/ RopeBuild
    \/ RopeUpdateVertices
    \/ RopeUpdate

----------------------------------------------------------------------------
\* Ticker.

\* caps on the callbacks pending at once and on the animation frames
MaxPending == 3
MaxFrames == 3
\* ms between two animation frames
FrameTimes == {16, 120}
Speeds == {1, 2}
\* the time of the first frame (any time after 1970 is more than 100 ms
\* after lastTime = 0)
StartTime == 1000

\* update() with this.active true: deltaTime is timeElapsed * 0.06 * speed,
\* kept in hundredths, with timeElapsed capped at 100
update_active(t, currentTime) ==
    LET elapsed == currentTime - t.lastTime
        timeElapsed == IF elapsed > 100 THEN 100 ELSE elapsed
    IN  [t EXCEPT !.deltaTime = timeElapsed * 6 * t.speed,
                  !.lastTime = currentTime]

\* An animation frame runs the callbacks requested before it, one after the
\* other: n are left to ran, `ran` holds the ticker, the callbacks
\* requested for the next frame and the 'tick' events emitted
RECURSIVE runCallbacks(_, _, _)
runCallbacks(n, currentTime, ran) ==
    IF n = 0 THEN ran
    ELSE runCallbacks(n - 1, currentTime,
             IF ran.ticker.active
             THEN [ticker |-> update_active(ran.ticker, currentTime),
                   requested |-> ran.requested + 1,
                   ticks |-> Append(ran.ticks, update_active(ran.ticker, currentTime).deltaTime)]
             ELSE ran)

Ticked(op, ticks) == [op |-> op, ticks |-> ticks, active |-> ticker.active]

\* start()
TickerStart ==
    /\ TickerOnly
    /\ ticker' = [ticker EXCEPT !.active = TRUE]
    /\ pending' = IF ticker.active THEN pending ELSE pending + 1
    /\ pending' <= MaxPending
    /\ lastTick' = Ticked("start", << >>)
    /\ UNCHANGED <<clock, frames>>

\* stop()
TickerStop ==
    /\ TickerOnly
    /\ ticker' = [ticker EXCEPT !.active = FALSE]
    /\ lastTick' = Ticked("stop", << >>)
    /\ UNCHANGED <<pending, clock, frames>>

\* ticker.speed = speed
TickerSetSpeed(speed) ==
    /\ TickerOnly
    /\ ticker' = [ticker EXCEPT !.speed = speed]
    /\ lastTick' = Ticked("speed", << >>)
    /\ UNCHANGED <<pending, clock, frames>>

\* The browser's animation frame, dt ms after the one before
AnimationFrame(dt) ==
    /\ TickerOnly
    /\ frames < MaxFrames
    /\ frames' = frames + 1
    /\ clock' = clock + dt
    /\ LET ran == runCallbacks(pending, clock',
                       [ticker |-> ticker, requested |-> 0, ticks |-> << >>])
       IN  /\ ticker' = ran.ticker
           /\ pending' = ran.requested
           /\ lastTick' = Ticked("frame", ran.ticks)

\* new Ticker(): it starts itself
TickerInit ==
    /\ ticker = [active |-> TRUE, deltaTime |-> 100, lastTime |-> 0, speed |-> 1]
    /\ pending = 1
    /\ clock = StartTime
    /\ frames = 0
    /\ lastTick = [op |-> "constructor", ticks |-> << >>, active |-> FALSE]

TickerIdle == TickerInit

TickerNext ==
    \/ TickerStart
    \/ TickerStop
    \/ \E speed \in Speeds : TickerSetSpeed(speed)
    \/ \E dt \in FrameTimes : AnimationFrame(dt)

----------------------------------------------------------------------------
InitBatcher ==
    /\ BatcherInit
    /\ TextureIdle
    /\ BufferIdle
    /\ TransformIdle
    /\ BoundsInit
    /\ GcIdle
    /\ CanvasIdle
    /\ ProgramInit
    /\ ShaderIdle
    /\ CacheIdle
    /\ InteractionIdle
    /\ RopeIdle
    /\ TickerIdle

SpecBatcher == InitBatcher /\ [][BatcherNext]_vars

InitTexture ==
    /\ TextureInit
    /\ BatcherInit
    /\ BufferIdle
    /\ TransformIdle
    /\ BoundsInit
    /\ GcIdle
    /\ CanvasIdle
    /\ ProgramInit
    /\ ShaderIdle
    /\ CacheIdle
    /\ InteractionIdle
    /\ RopeIdle
    /\ TickerIdle

SpecTexture == InitTexture /\ [][TextureNext]_vars

InitBuffer ==
    /\ BufferInit
    /\ BatcherInit
    /\ TextureIdle
    /\ TransformIdle
    /\ BoundsInit
    /\ GcIdle
    /\ CanvasIdle
    /\ ProgramInit
    /\ ShaderIdle
    /\ CacheIdle
    /\ InteractionIdle
    /\ RopeIdle
    /\ TickerIdle

SpecBuffer == InitBuffer /\ [][BufferNext]_vars

InitBase ==
    /\ BufferInit
    /\ BatcherInit
    /\ TextureIdle
    /\ TransformIdle
    /\ BoundsInit
    /\ GcIdle
    /\ CanvasIdle
    /\ ProgramInit
    /\ ShaderIdle
    /\ CacheIdle
    /\ InteractionIdle
    /\ RopeIdle
    /\ TickerIdle

SpecBase == InitBase /\ [][BaseNext]_vars

InitTransform ==
    /\ TransformInit
    /\ BatcherInit
    /\ TextureIdle
    /\ BufferIdle
    /\ BoundsInit
    /\ GcIdle
    /\ CanvasIdle
    /\ ProgramInit
    /\ ShaderIdle
    /\ CacheIdle
    /\ InteractionIdle
    /\ RopeIdle
    /\ TickerIdle

SpecTransform == InitTransform /\ [][TransformNext]_vars

InitChain ==
    /\ ChainInit
    /\ BatcherInit
    /\ TextureIdle
    /\ BufferIdle
    /\ BoundsInit
    /\ GcIdle
    /\ CanvasIdle
    /\ ProgramInit
    /\ ShaderIdle
    /\ CacheIdle
    /\ InteractionIdle
    /\ RopeIdle
    /\ TickerIdle

SpecChain == InitChain /\ [][ChainNext]_vars

InitPass ==
    /\ PassInit
    /\ BatcherInit
    /\ TextureIdle
    /\ BufferIdle
    /\ BoundsInit
    /\ GcIdle
    /\ CanvasIdle
    /\ ProgramInit
    /\ ShaderIdle
    /\ CacheIdle
    /\ InteractionIdle
    /\ RopeIdle
    /\ TickerIdle

SpecPass == InitPass /\ [][PassNext]_vars

InitBounds ==
    /\ BoundsInit
    /\ BatcherInit
    /\ TextureIdle
    /\ BufferIdle
    /\ TransformIdle
    /\ GcIdle
    /\ CanvasIdle
    /\ ProgramInit
    /\ ShaderIdle
    /\ CacheIdle
    /\ InteractionIdle
    /\ RopeIdle
    /\ TickerIdle

SpecBounds == InitBounds /\ [][BoundsNext]_vars

InitGc ==
    /\ GcInit
    /\ BatcherInit
    /\ TextureIdle
    /\ BufferIdle
    /\ TransformIdle
    /\ BoundsInit
    /\ CanvasIdle
    /\ ProgramInit
    /\ ShaderIdle
    /\ CacheIdle
    /\ InteractionIdle
    /\ RopeIdle
    /\ TickerIdle

SpecGc == InitGc /\ [][GcNext]_vars

InitCanvas ==
    /\ CanvasInit
    /\ BatcherInit
    /\ TextureIdle
    /\ BufferIdle
    /\ TransformIdle
    /\ BoundsInit
    /\ GcIdle
    /\ ProgramInit
    /\ ShaderIdle
    /\ CacheIdle
    /\ InteractionIdle
    /\ RopeIdle
    /\ TickerIdle

SpecCanvas == InitCanvas /\ [][CanvasNext]_vars

InitProgram ==
    /\ ProgramInit
    /\ BatcherInit
    /\ TextureIdle
    /\ BufferIdle
    /\ TransformIdle
    /\ BoundsInit
    /\ GcIdle
    /\ CanvasIdle
    /\ ShaderIdle
    /\ CacheIdle
    /\ InteractionIdle
    /\ RopeIdle
    /\ TickerIdle

SpecProgram == InitProgram /\ [][ProgramNext]_vars

InitShader ==
    /\ ShaderInit
    /\ BatcherInit
    /\ TextureIdle
    /\ BufferIdle
    /\ TransformIdle
    /\ BoundsInit
    /\ GcIdle
    /\ CanvasIdle
    /\ ProgramInit
    /\ CacheIdle
    /\ InteractionIdle
    /\ RopeIdle
    /\ TickerIdle

SpecShader == InitShader /\ [][ShaderNext]_vars

InitCache ==
    /\ CacheInit
    /\ BatcherInit
    /\ TextureIdle
    /\ BufferIdle
    /\ TransformIdle
    /\ BoundsInit
    /\ GcIdle
    /\ CanvasIdle
    /\ ProgramInit
    /\ ShaderIdle
    /\ InteractionIdle
    /\ RopeIdle
    /\ TickerIdle

SpecCache == InitCache /\ [][CacheNext]_vars

InitMouse ==
    /\ MouseInit
    /\ BatcherInit
    /\ TextureIdle
    /\ BufferIdle
    /\ TransformIdle
    /\ BoundsInit
    /\ GcIdle
    /\ CanvasIdle
    /\ ProgramInit
    /\ ShaderIdle
    /\ CacheIdle
    /\ RopeIdle
    /\ TickerIdle

SpecMouse == InitMouse /\ [][MouseNext]_vars

InitHit ==
    /\ HitInit
    /\ BatcherInit
    /\ TextureIdle
    /\ BufferIdle
    /\ TransformIdle
    /\ BoundsInit
    /\ GcIdle
    /\ CanvasIdle
    /\ ProgramInit
    /\ ShaderIdle
    /\ CacheIdle
    /\ RopeIdle
    /\ TickerIdle

SpecHit == InitHit /\ [][HitNext]_vars

InitRope ==
    /\ RopeInit
    /\ BatcherInit
    /\ TextureIdle
    /\ BufferIdle
    /\ TransformIdle
    /\ BoundsInit
    /\ GcIdle
    /\ CanvasIdle
    /\ ProgramInit
    /\ ShaderIdle
    /\ CacheIdle
    /\ InteractionIdle
    /\ TickerIdle

SpecRope == InitRope /\ [][RopeNext]_vars

InitTicker ==
    /\ TickerInit
    /\ BatcherInit
    /\ TextureIdle
    /\ BufferIdle
    /\ TransformIdle
    /\ BoundsInit
    /\ GcIdle
    /\ CanvasIdle
    /\ ProgramInit
    /\ ShaderIdle
    /\ CacheIdle
    /\ InteractionIdle
    /\ RopeIdle

SpecTicker == InitTicker /\ [][TickerNext]_vars

----------------------------------------------------------------------------
\* Helpers over the history of packed elements.

RECURSIVE VertexStart(_)
VertexStart(i) == IF i = 1 THEN 0 ELSE VertexStart(i - 1) + elements[i - 1].attributeSize

RECURSIVE IndexStart(_)
IndexStart(i) == IF i = 1 THEN 0 ELSE IndexStart(i - 1) + elements[i - 1].indexSize

\* First element of the maximal same-blend run that contains element i.
RECURSIVE RunStart(_)
RunStart(i) ==
    IF i = 1 \/ elements[i].blendMode # elements[i - 1].blendMode
    THEN i
    ELSE RunStart(i - 1)

NumRuns == Cardinality({RunStart(i) : i \in 1..Len(elements)})

TexturesOf(lo, hi) == {elements[k].texture : k \in lo..hi}

SameBlend == \A i \in 1..Len(elements) : elements[i].blendMode = elements[1].blendMode

RunsFitBudget ==
    \A i \in 1..Len(elements) : Cardinality(TexturesOf(RunStart(i), i)) <= maxTextures

\* The elements whose indices lie in batch k's range.
ElementsOfBatch(k) ==
    {i \in 1..Len(elements) :
        /\ IndexStart(i) >= batches[k].start
        /\ IndexStart(i) < batches[k].start + batches[k].size}

\* The unit index stored with vertex v (0-based) of the shared attribute view.
UnitWord(view, v) == At(view, v * vertexSize + 5) \div 65536
ColorWord(view, v) == At(view, v * vertexSize + 4)

----------------------------------------------------------------------------
\* C1: a sequence of elements added between begin() and finish() that all have
\* the same blend mode and use at most maxTextures distinct textures comes out
\* as exactly one batch (no break_batch() in between).
C1_OneBatch ==
    (/\ phase = "finished"
     /\ Len(elements) >= 1
     /\ forced = 0
     /\ SameBlend
     /\ Cardinality(TexturesOf(1, Len(elements))) <= maxTextures)
    => Len(batches) = 1

C1_Witness ==
    /\ phase = "finished"
    /\ Len(elements) = 3
    /\ forced = 0
    /\ SameBlend
    /\ Cardinality(TexturesOf(1, 3)) = 2
    /\ Len(batches) = 1

\* C2: when the textures of every same-blend run fit the budget, the number of
\* batches equals the number of maximal runs of consecutive elements that
\* share a blend mode.
C2_BatchPerRun ==
    (/\ phase = "finished"
     /\ forced = 0
     /\ RunsFitBudget)
    => Len(batches) = NumRuns

C2_Witness ==
    /\ phase = "finished"
    /\ forced = 0
    /\ Len(elements) = 3
    /\ elements[1].blendMode = "normal"
    /\ elements[2].blendMode = "add"
    /\ elements[3].blendMode = "normal"
    /\ Len(batches) = 3

\* C3: every emitted batch references at most maxTextures distinct textures and
\* one blend mode (that of all its elements); batches are cut only where the next
\* element could not join (other blend mode, or a new texture with the units
\* used up); and 3 quads with 3 distinct textures, 2 units and one blend mode
\* give 2 batches, elements 1 and 2 in the first, element 3 in the second.
C3_BatchShape ==
    /\ \A k \in 1..Len(batches) :
          LET batch == batches[k]
              els == ElementsOfBatch(k)
          IN  /\ Len(batch.textures) <= maxTextures
              /\ \A u, w \in 1..Len(batch.textures) : batch.textures[u] = batch.textures[w] => u = w
              /\ batch.size > 0
              /\ els # {}
              /\ \A i \in els : elements[i].blendMode = batch.blendMode
              /\ {batch.textures[u] : u \in 1..Len(batch.textures)} = {elements[i].texture : i \in els}
              /\ batch.start = IF k = 1 THEN 0 ELSE batches[k - 1].start + batches[k - 1].size
    /\ forced = 0 =>
          \A k \in 1..Len(batches) :
              LET batch == batches[k]
                  next == CHOOSE i \in 1..(Len(elements) + 1) : IndexStart(i) = batch.start + batch.size
              IN  next <= Len(elements) =>
                      \/ elements[next].blendMode # batch.blendMode
                      \/ /\ \A u \in 1..Len(batch.textures) : batch.textures[u] # elements[next].texture
                         /\ Len(batch.textures) = maxTextures
    /\ (/\ phase = "finished"
        /\ forced = 0
        /\ maxTextures = 2
        /\ Len(elements) = 3
        /\ \A i \in 1..3 : elements[i].kind = "quad"
        /\ SameBlend
        /\ Cardinality(TexturesOf(1, 3)) = 3)
       => /\ Len(batches) = 2
          /\ batches[1] = [textures |-> <<elements[1].texture, elements[2].texture>>,
                           blendMode |-> elements[1].blendMode, start |-> 0, size |-> 12]
          /\ batches[2] = [textures |-> <<elements[3].texture>>,
                           blendMode |-> elements[1].blendMode, start |-> 12, size |-> 6]
          /\ \A s \in 0..11 : At(indexBuffer, s) \in 0..7
          /\ \A s \in 12..17 : At(indexBuffer, s) \in 8..11
          /\ \A v \in 0..7 : UnitWord(attributeBuffer, v) = v \div 4
          /\ \A v \in 8..11 : UnitWord(attributeBuffer, v) = 0

C3_Witness ==
    /\ phase = "finished"
    /\ forced = 0
    /\ maxTextures = 2
    /\ Len(elements) = 3
    /\ \A i \in 1..3 : elements[i].kind = "quad"
    /\ SameBlend
    /\ Cardinality(TexturesOf(1, 3)) = 3
    /\ Len(batches) = 2
    /\ ElementsOfBatch(1) = {1, 2}
    /\ ElementsOfBatch(2) = {3}

\* C4: add(element) with a texture that is already in the active batch's
\* texture set never increases the size of the active set, and when the element
\* joins the active batch its vertices carry the unit index the texture
\* already holds.
C4_UnitReuse ==
    [][(/\ Len(elements') = Len(elements) + 1
        /\ UnitOf(batchTextures, elements'[Len(elements')].texture) >= 0)
       => /\ Len(batchTextures') <= Len(batchTextures)
          /\ elements'[Len(elements')].blendMode = batchBlend
                => /\ batchTextures' = batchTextures
                   /\ \A v \in attributeSize..(attributeSize' - 1) :
                         UnitWord(attributeBuffer', v)
                            = UnitOf(batchTextures, elements'[Len(elements')].texture)]_vars

C4_Witness ==
    /\ phase = "building"
    /\ forced = 0
    /\ Len(elements) = 3
    /\ SameBlend
    /\ elements[3].kind = "quad"
    /\ elements[3].texture = elements[2].texture
    /\ elements[1].texture # elements[2].texture
    /\ batches = << >>
    /\ Len(batchTextures) = 2
    /\ UnitWord(attributeBuffer, VertexStart(3)) = 1

\* C5: packed output keeps add() order: element i's vertices fill the slots
\* right after those of the elements added before it (each vertex carries
\* element i's colour word), its indices fill the index slots right after
\* theirs, and each of its indices is its source index plus the vertex count at
\* the time it was added, so it references one of element i's own vertices.
C5_OrderPreserved ==
    /\ attributeSize = VertexStart(Len(elements) + 1)
    /\ indexSize = IndexStart(Len(elements) + 1)
    /\ \A i \in 1..Len(elements) :
          LET e == elements[i]
          IN  /\ \A v \in 0..(e.attributeSize - 1) :
                    ColorWord(attributeBuffer, VertexStart(i) + v) = e.color
              /\ \A k \in 0..(e.indexSize - 1) :
                    /\ At(indexBuffer, IndexStart(i) + k) = At(e.indices, k) + VertexStart(i)
                    /\ At(indexBuffer, IndexStart(i) + k) >= VertexStart(i)
                    /\ At(indexBuffer, IndexStart(i) + k) < VertexStart(i) + e.attributeSize

C5_Witness ==
    /\ Len(elements) = 3
    /\ elements[1].kind = "quad"
    /\ elements[2].kind = "mesh"
    /\ elements[3].kind = "quad"
    /\ Len(batches) = 0
    /\ At(indexBuffer, 6) = 4
    /\ At(indexBuffer, 9) = 7
    /\ ColorWord(attributeBuffer, 6) = elements[2].color

\* C6: a single quad with the default blend mode comes out as exactly 1 batch
\* of 4 vertices and 6 indices (two triangles).
C6_SingleQuad ==
    (/\ phase = "finished"
     /\ Len(elements) = 1
     /\ elements[1].kind = "quad"
     /\ elements[1].blendMode = "normal")
    => /\ Len(batches) = 1
       /\ batches[1].start = 0
       /\ batches[1].size = 6
       /\ batches[1].textures = <<elements[1].texture>>
       /\ attributeSize = 4
       /\ indexSize = 6
       /\ [k \in 1..6 |-> indexBuffer[k]] = <<0, 1, 2, 0, 2, 3>>
       /\ \A v \in 0..3 : /\ ColorWord(attributeBuffer, v) = elements[1].color
                          /\ UnitWord(attributeBuffer, v) = 0
       /\ Cardinality({<<At(attributeBuffer, v * vertexSize),
                         At(attributeBuffer, v * vertexSize + 1)>> : v \in 0..3}) = 4
       /\ \A s \in (4 * vertexSize + 1)..Len(attributeBuffer) : attributeBuffer[s] = 0

C6_Witness ==
    /\ phase = "finished"
    /\ Len(elements) = 1
    /\ elements[1].kind = "quad"
    /\ elements[1].blendMode = "normal"
    /\ Len(batches) = 1
    /\ batches[1].size = 6
    /\ attributeSize = 4

----------------------------------------------------------------------------
\* C7: after setSize(w, h, r) the source is valid if w > 0 and h > 0 and not
\* valid if w = 0 or h = 0, whatever it was before the call.
C7_SetSizeDecidesValid ==
    lastCall.op = "setSize"
        => (bt.valid <=> (lastCall.width > 0 /\ lastCall.height > 0))

\* C8: two destroy() calls emit the 'dispose' notification (the one that
\* makes the texture system delete the GPU texture) at most once.
C8_DisposeAtMostOnce ==
    destroyCalls = 2 => destroyDisposes <= 1

NumberOf(event, events) == Cardinality({i \in 1..Len(events) : events[i] = event})

\* C9 as claimed: every call to update() increments dirtyId and emits 'update',
\* valid or not.
C9_UpdateAlwaysNotifies ==
    [][lastCall'.op = "update"
          => /\ bt'.dirtyId = bt.dirtyId + 1
             /\ NumberOf("update", bt'.emitted) = 1]_vars

\* C9 as amended: every run of update() (called directly, through the
\* resource's onUpdate, or from setSize / setRealSize) on a valid source
\* increments dirtyId by 1 and emits 'update'; on a source that is not yet
\* valid it leaves dirtyId alone, and emits 'loaded' and 'update' and makes the
\* source valid only if width > 0 and height > 0; otherwise it emits nothing.
C9_UpdateWhenValid ==
    [][lastCall'.op \in {"update", "setSize", "setRealSize"}
          => IF bt.valid
             THEN /\ bt'.valid
                  /\ bt'.dirtyId = bt.dirtyId + 1
                  /\ bt'.emitted = <<"update">>
             ELSE IF bt'.width > 0 /\ bt'.height > 0
                  THEN /\ bt'.valid
                       /\ bt'.dirtyId = bt.dirtyId
                       /\ bt'.emitted = <<"loaded", "update">>
                  ELSE /\ ~bt'.valid
                       /\ bt'.dirtyId = bt.dirtyId
                       /\ bt'.emitted = << >>]_vars

C9_Witness ==
    /\ lastCall.op = "update"
    /\ ~bt.valid
    /\ bt.dirtyId = 0
    /\ bt.emitted = << >>

Uploads(calls) == NumberOf("bufferSubData", calls) + NumberOf("bufferData", calls)

\* C10: updateBuffer(buffer) issues no GL upload when buffer._updateID equals
\* the id recorded for its GL buffer, and otherwise (a fresh GL buffer
\* included) exactly one, bufferSubData or bufferData; when it returns the
\* recorded id equals buffer._updateID, and a second call right after it
\* uploads nothing.
C10_UploadOnlyWhenStale ==
    [][lastOp'.op = "updateBuffer"
          => LET b == lastOp'.buffer
                 synced == /\ gpuBuffers[b].present
                           /\ gpuBuffers[b].updateID = buffers[b].updateID
             IN  /\ synced => Uploads(glCalls') = 0
                 /\ ~synced => Uploads(glCalls') = 1
                 /\ gpuBuffers'[b].present
                 /\ gpuBuffers'[b].updateID = buffers'[b].updateID
                 /\ lastOp = lastOp' => Uploads(glCalls') = 0]_vars

C10_Witness ==
    /\ lastOp.op = "updateBuffer"
    /\ glCalls = << >>
    /\ gpuBuffers[lastOp.buffer].present
    /\ gpuBuffers[lastOp.buffer].updateID = 2
    /\ buffers[lastOp.buffer].updateID = 2

\* C11: on a stale buffer updateBuffer calls gl.bufferData exactly when the
\* data's byteLength exceeds the byteLength recorded for the GL buffer (a
\* fresh GL buffer records -1) and gl.bufferSubData otherwise; the recorded
\* byteLength of a GL buffer never decreases, and after an upload it is at
\* least the byteLength of the data uploaded.
C11_GrowOnly ==
    [][lastOp'.op = "updateBuffer"
          => LET b == lastOp'.buffer
                 recorded == gpuBuffers[b].byteLength
                 stale == ~(gpuBuffers[b].present
                            /\ gpuBuffers[b].updateID = buffers[b].updateID)
             IN  /\ stale =>
                       /\ buffers[b].byteLength > recorded
                             <=> NumberOf("bufferData", glCalls') = 1
                       /\ buffers[b].byteLength <= recorded
                             <=> NumberOf("bufferSubData", glCalls') = 1
                       /\ gpuBuffers'[b].byteLength >= buffers[b].byteLength
                 /\ gpuBuffers[b].present => gpuBuffers'[b].byteLength >= recorded
                 /\ \A o \in BufferIds \ {b} : gpuBuffers'[o] = gpuBuffers[o]]_vars

C11_Witness ==
    /\ lastOp.op = "updateBuffer"
    /\ glCalls = <<"bindBuffer", "bufferSubData">>
    /\ gpuBuffers[lastOp.buffer].byteLength = 8
    /\ buffers[lastOp.buffer].byteLength = 4

\* C12: a context change issues no gl.deleteBuffer and empties the cache of
\* GL buffers; afterwards bind/updateBuffer of a Buffer that has no cached GL
\* buffer (every Buffer known before the change included) creates a new GL
\* buffer in the current context.
C12_ContextChangeRecreates ==
    [][/\ lastOp'.op = "contextChange"
          => /\ NumberOf("deleteBuffer", glCalls') = 0
             /\ Held' = {}
       /\ (lastOp'.op \in {"bind", "updateBuffer"} /\ lastOp'.buffer \notin Held)
          => /\ glCalls'[1] = "createBuffer"
             /\ lastOp'.buffer \in Held'
             /\ gpuBuffers'[lastOp'.buffer].buffer \in gl'.live
             /\ gpuBuffers'[lastOp'.buffer].buffer \notin gl.live
       /\ (lastOp.op = "contextChange" /\ lastOp'.op \in {"bind", "updateBuffer"})
          => glCalls'[1] = "createBuffer"]_vars

C12_Witness ==
    /\ lastOp.op = "contextChange"
    /\ lastOp.held = BufferIds
    /\ Held = {}
    /\ glCalls = << >>

----------------------------------------------------------------------------
\* The product of two affine matrices as 3x3 matrices acting on row vectors
\* (x, y, 1): first m, then n.
Mat3(m) == << <<m.a, m.b, 0>>, <<m.c, m.d, 0>>, <<m.tx, m.ty, 1>> >>

MatMul(m, n) ==
    LET M == Mat3(m)
        N == Mat3(n)
        P(i, j) == (M[i][1] * N[1][j]) + (M[i][2] * N[2][j]) + (M[i][3] * N[3][j])
    IN  [a |-> P(1, 1), b |-> P(1, 2), c |-> P(2, 1), d |-> P(2, 2),
         tx |-> P(3, 1), ty |-> P(3, 2)]

C14_WorldIsLocalTimesParent ==
    lastT.op = "updateTransform"
        => tr[lastT.node].worldTransform
              = MatMul(localMatrix(tr[lastT.node]), Parent(lastT.parent).worldTransform)

\* C15: along the chain 1 -> 2 -> 3, when node 2 has just been updated against
\* node 1 and node 3 is then composed against node 2, node 3's world matrix
\* is its local matrix times node 2's world matrix, and equally the product
\* of (node 3's local matrix times node 2's local matrix) with node 1's world
\* matrix.
C15_Associative ==
    [][(/\ lastT = [op |-> "updateTransform", node |-> 2, parent |-> 1]
        /\ lastT' = [op |-> "updateTransform", node |-> 3, parent |-> 2]
        /\ tr'[3]._worldID = tr[3]._worldID + 1)
          => /\ tr'[3].worldTransform
                   = MatMul(tr'[3].localTransform,
                            MatMul(tr[2].localTransform, tr[1].worldTransform))
             /\ tr'[3].worldTransform
                   = MatMul(MatMul(tr'[3].localTransform, tr[2].localTransform),
                            tr[1].worldTransform)]_vars

C15_Witness ==
    /\ lastT = [op |-> "updateTransform", node |-> 3, parent |-> 2]
    /\ \A n \in Nodes : tr[n]._worldID = 1
    /\ tr[1].position = [x |-> 3, y |-> 1] /\ tr[1]._rotation = 1
    /\ tr[2].position = [x |-> 3, y |-> 1] /\ tr[2].scale = [x |-> 2, y |-> 3]
    /\ tr[3].scale = [x |-> 2, y |-> 3] /\ tr[3]._rotation = 1
    /\ tr[3].worldTransform
          = MatMul(MatMul(tr[3].localTransform, tr[2].localTransform), tr[1].worldTransform)
    /\ tr[3].worldTransform # MatMul(tr[1].worldTransform,
                                     MatMul(tr[2].localTransform, tr[3].localTransform))

----------------------------------------------------------------------------
\* The four corners of a frame under a matrix, and the extremes of a set.
Corners(m, f) ==
    {<<(m.a * x) + (m.c * y) + m.tx, (m.b * x) + (m.d * y) + m.ty>> :
        x \in {f[1], f[3]}, y \in {f[2], f[4]}}

Least(S) == CHOOSE v \in S : \A w \in S : v <= w
Greatest(S) == CHOOSE v \in S : \A w \in S : v >= w

\* C16: addFrame on cleared bounds gives the axis-aligned box of the four
\* transformed corners; for corners (0,0)-(10,11) the rectangle is
\* (0, 0, 10, 11) under the identity and (5, 15, 10, 11) under a world
\* translation of (5, 15).
C16_AddFrame ==
    [][(lastB'.op = "addFrame" /\ bb = Cleared)
          => LET m == lastB'.transform.worldTransform
                 f == lastB'.frame
                 xs == {p[1] : p \in Corners(m, f)}
                 ys == {p[2] : p \in Corners(m, f)}
             IN  /\ getRectangle(bb')
                       = Rectangle(Least(xs), Least(ys),
                                   Greatest(xs) - Least(xs), Greatest(ys) - Least(ys))
                 /\ (f = <<0, 0, 10, 11>> /\ m = Matrix)
                       => getRectangle(bb') = Rectangle(0, 0, 10, 11)
                 /\ (f = <<0, 0, 10, 11>> /\ m = [Matrix EXCEPT !.tx = 5, !.ty = 15])
                       => getRectangle(bb') = Rectangle(5, 15, 10, 11)]_vars

C16_Witness ==
    /\ lastB.op = "addFrame"
    /\ lastB.frame = <<0, 0, 10, 11>>
    /\ lastB.transform.position = [x |-> 5, y |-> 15]
    /\ lastB.transform.worldTransform = [Matrix EXCEPT !.tx = 5, !.ty = 15]
    /\ getRectangle(bb) = Rectangle(5, 15, 10, 11)

----------------------------------------------------------------------------
\* The managed textures a run() at frame count finds idle.
Idle(count) ==
    {managedTextures[i] : i \in 1..Len(managedTextures)}
        \cap {id \in GcTextureIds :
                 /\ ~gcTextures[id]._glRenderTargets
                 /\ count - gcTextures[id].touched > maxIdle}

\* C17: a run() releases the backend texture of exactly the managed textures
\* that have no render target and for which count - touched > maxIdle, leaves
\* every texture undestroyed, and leaves managedTextures holding exactly the
\* other managed textures, in their order, without null entries.
C17_RunReleasesIdle ==
    [][lastG'.ran
          => LET idle == Idle(gc'.count)
             IN  /\ \A id \in GcTextureIds :
                       /\ gcTextures'[id].glTexture
                             = (gcTextures[id].glTexture /\ id \notin idle)
                       /\ gcTextures'[id].destroyed = gcTextures[id].destroyed
                       /\ gcTextures'[id].touched = gcTextures[id].touched
                 /\ managedTextures' = SelectSeq(managedTextures, LAMBDA id : id \notin idle)
                 /\ \A i \in 1..Len(managedTextures') : managedTextures'[i] # 0]_vars

C17_Witness ==
    /\ lastG.ran
    /\ managedTextures = <<3, 1>>
    /\ gcTextures[2].touched = 0
    /\ ~gcTextures[2].glTexture
    /\ ~gcTextures[2]._glRenderTargets
    /\ gcTextures[3]._glRenderTargets
    /\ gcTextures[3].touched = 0
    /\ gcTextures[1].glTexture
    /\ gc.count - gcTextures[1].touched <= maxIdle

----------------------------------------------------------------------------
\* C18: after destroy(), reading or setting width or height, resize and
\* clear all raise an error.
C18_DestroyedRaises ==
    (crt.canvasNull /\ lastR.op \notin {"constructor", "destroy"}) => lastR.threw

----------------------------------------------------------------------------
\* C19: calls of Program.from with the same vertex source, fragment source,
\* name and options return the same Program; a repeated call constructs none.
C19_FromIsCached ==
    \A args \in ProgramArgs : Cardinality(fromReturned[args]) <= 1

----------------------------------------------------------------------------
\* C20: constructing a Shader with both resources and groups throws
\* '[Shader] Cannot have both resources and groups'; with groups but neither
\* a gpuProgram nor a groupMap it throws as well; with neither resources nor
\* groups it succeeds, and the shader holds no resource: no bind group has
\* one, and without a gpuProgram the resources record has no entry.
C20_ResourcesOrGroups ==
    lastS.op = "constructor" =>
        LET options == lastS.options[1]
            threw == lastS.thrown # "" /\ ~shader.constructed
        IN  /\ (options.resources # Undefined /\ options.groups # Undefined) =>
                  /\ threw
                  /\ lastS.thrown = "[Shader] Cannot have both resources and groups"
            /\ (options.groups # Undefined /\ options.gpuProgram = Undefined
                    /\ options.groupMap = Undefined) => threw
            /\ (options.resources = Undefined /\ options.groups = Undefined) =>
                  /\ lastS.thrown = ""
                  /\ shader.constructed
                  /\ shader.groups = Some(<< >>)
                  /\ options.gpuProgram = Undefined => shader.resources = Some(<< >>)

C20_Witness ==
    /\ lastS.op = "constructor"
    /\ lastS.options[1].resources = Some(<< >>)
    /\ lastS.options[1].groups = Some(<< >>)
    /\ lastS.options[1].gpuProgram # Undefined
    /\ lastS.options[1].groupMap # Undefined
    /\ lastS.thrown = "[Shader] Cannot have both resources and groups"
    /\ ~shader.constructed

----------------------------------------------------------------------------
\* C21: destroy() emits 'destroy'; it destroys every BindGroup the shader
\* created itself (the ones in its groups made by the constructor or by
\* addResource, and the constructor's dummy group) and no BindGroup the caller
\* supplied through groups; it destroys the gpuProgram and glProgram it has
\* when destroyPrograms is true, and no program otherwise.
C21_DestroyOwned ==
    [][(lastS'.op = "destroy" /\ lastS'.thrown = "") =>
          LET groups == shader.groups[1]
              destroyed == {lastS'.bindGroups[i] : i \in DOMAIN lastS'.bindGroups}
          IN  /\ lastS'.emitted = <<"destroy">>
              /\ \A k \in DOMAIN groups :
                     (k \in destroyed) <=> (groups[k].createdBy = "shader")
              /\ \A k \in destroyed : k \in DOMAIN groups \/ k = 99
              /\ lastS'.programs
                    = IF lastS'.options[1]
                      THEN {p \in {"gpuProgram", "glProgram"} : shader[p] # Undefined}
                      ELSE {}
              /\ shader'.groups = Undefined]_vars

C21_Witness ==
    /\ lastS.op = "destroy"
    /\ lastS.thrown = ""
    /\ lastS.bindGroups = <<1>>
    /\ lastS.options = Some(TRUE)
    /\ lastS.programs = {"gpuProgram"}

----------------------------------------------------------------------------
----------------------------------------------------------------------------
\* C23: a live texture bound to a Resource is among the Resource's listeners
\* (it receives the resize and update notifications) whatever happened to
\* the other textures bound to that Resource, and destroy() never throws.
C23_SharedResource ==
    /\ \A t \in BaseTextureIds :
          LET r == baseTextures[t].resource
          IN  (baseTextures[t].created /\ ~baseTextures[t].destroyed /\ r # 0) =>
                  (~sharedResources[r].listenersNull /\ t \in sharedResources[r].listeners)
    /\ lastC.op = "destroy" => lastC.thrown = ""

----------------------------------------------------------------------------
\* C24: once the constructor returns, a BaseTexture constructed with options
\* width = w and height = h and no sized resource has width w and height h,
\* and one bound at construction to a resource of size w x h at resolution 1
\* has width w and height h.
C24_ConstructedSize ==
    lastCall.op = "constructor" =>
        LET sized == bt.resource /\ (resource.width # 0 \/ resource.height # 0)
        IN  /\ ~sized => (bt.width = lastCall.width /\ bt.height = lastCall.height)
            /\ (sized /\ bt.resolution = 1) =>
                    (bt.width = resource.width /\ bt.height = resource.height)

----------------------------------------------------------------------------
----------------------------------------------------------------------------
\* C26: the 'mouseover' and 'mouseout' events delivered to an object
\* alternate, starting with 'mouseover': a 'mouseover' is delivered only to
\* an object whose last such event was not 'mouseover', a 'mouseout' only to
\* one whose last such event was 'mouseover'.
C26_OverOutAlternate ==
    [][\A i \in DOMAIN lastI'.delivered :
          LET event == lastI'.delivered[i]
          IN  /\ event.type = "mouseover" => lastOverOut[event.target] # "mouseover"
              /\ event.type = "mouseout" => lastOverOut[event.target] = "mouseover"]_vars

----------------------------------------------------------------------------
\* C27: when a Buffer is destroyed, the destroy handler completes without
\* error and gl.deleteBuffer is called exactly once if the system holds a GL
\* buffer for it, and not at all otherwise.
C27_BufferDestroyReleasesOnce ==
    lastOp.op = "destroy" =>
        /\ ~lastOp.thrown
        /\ NumberOf("deleteBuffer", glCalls)
              = IF lastOp.buffer \in lastOp.held THEN 1 ELSE 0

----------------------------------------------------------------------------
\* C28: in a parent-before-child update pass over the chain of caching
\* transforms, every node below a node with a field changed since the last
\* pass recomposes (its _worldID grows by 1), and a pass before which no field
\* changed anywhere leaves every _worldID as it is.
C28_PassRecomposes ==
    [][lastT'.op = "pass"
          => /\ \A n \in Nodes :
                   (\E a \in Nodes : a < n /\ a \in lastT.changed)
                       => tr'[n]._worldID = tr[n]._worldID + 1
             /\ lastT.changed = {}
                   => \A n \in Nodes : tr'[n]._worldID = tr[n]._worldID]_vars

----------------------------------------------------------------------------
\* C29: packing an element writes vertexSize = 6 words per vertex (x, y, u, v,
\* color, textureIdAndRound) into the consecutive slots from the given index,
\* attributeSize x 6 of them for a mesh and 24 for a quad, and no other slot
\* of the shared view changes (a slot the view grew by is zero); every vertex
\* of the element carries the element's color word and one and the same
\* textureIdAndRound word.

\* the corner of the quad's bounds and the uv pair that go with vertex v
QuadCorner(e, v) ==
    [x |-> IF v \in {0, 3} THEN e.bounds.minX ELSE e.bounds.maxX,
     y |-> IF v \in {0, 1} THEN e.bounds.minY ELSE e.bounds.maxY,
     u |-> <<e.uvs.x0, e.uvs.x1, e.uvs.x2, e.uvs.x3>>[v + 1],
     v |-> <<e.uvs.y0, e.uvs.y1, e.uvs.y2, e.uvs.y3>>[v + 1]]

MeshCorner(e, v) ==
    [x |-> At(e.positions, 2 * (e.attributeOffset + v)),
     y |-> At(e.positions, 2 * (e.attributeOffset + v) + 1),
     u |-> At(e.uvs, 2 * (e.attributeOffset + v)),
     v |-> At(e.uvs, 2 * (e.attributeOffset + v) + 1)]

C29_SixWordsPerVertex ==
    [][Len(elements') = Len(elements) + 1
          => LET e == elements'[Len(elements')]
                 index == attributeSize * vertexSize
                 words == IF e.kind = "quad" THEN 24 ELSE e.attributeSize * 6
                 wt == e.transform
                 textureIdAndRound ==
                     (UnitOf(batchTextures', e.texture) * 65536) + (e.roundPixels % 65536)
                 Slot(k) == At(attributeBuffer', index + k)
             IN  /\ attributeSize' * vertexSize = index + words
                 /\ Len(attributeBuffer') >= index + words
                 /\ \A s \in 0..(Len(attributeBuffer') - 1) :
                       (s < index \/ s >= index + words)
                           => At(attributeBuffer', s)
                                 = IF s < Len(attributeBuffer)
                                   THEN At(attributeBuffer, s) ELSE 0
                 /\ \A v \in 0..((words \div 6) - 1) :
                       LET p == IF e.kind = "quad" THEN QuadCorner(e, v)
                                ELSE MeshCorner(e, v)
                       IN  /\ Slot(6 * v) = (wt.a * p.x) + (wt.c * p.y) + wt.tx
                           /\ Slot(6 * v + 1) = (wt.b * p.x) + (wt.d * p.y) + wt.ty
                           /\ Slot(6 * v + 2) = p.u
                           /\ Slot(6 * v + 3) = p.v
                           /\ Slot(6 * v + 4) = e.color
                           /\ Slot(6 * v + 5) = textureIdAndRound]_vars

\* a mesh was packed at slot 0, a quad after it at slot 18 with another
\* texture unit, and then a mesh at slot 42: the view has grown to 96 slots
C29_Witness ==
    /\ Len(elements) = 3
    /\ elements[1].kind = "mesh"
    /\ elements[2].kind = "quad"
    /\ elements[3].kind = "mesh"
    /\ Len(attributeBuffer) = 96
    /\ At(attributeBuffer, 4) = elements[1].color
    /\ At(attributeBuffer, 18 + 23) = 65536 + elements[2].roundPixels
    /\ At(attributeBuffer, 18 + 22) = elements[2].color
    /\ At(attributeBuffer, 42 + 16) = elements[3].color
    /\ At(attributeBuffer, 60) = 0

----------------------------------------------------------------------------
\* C30: one processInteractive pass calls the callback in the order of the
\* crawl (children from last to first, a container after its children), never
\* on an invisible object nor on an object below one; and in a pass in which
\* no callback detaches an object reported hit, the objects reported hit lie
\* on one root-to-leaf chain and a hit test that hits is the last hit test of
\* the pass.

\* a is above o in the scene
Above(objects, a, o) ==
    LET p == objects[o].parent
    IN  p # 0 /\ (p = a \/ (objects[p].parent # 0 /\ objects[p].parent = a))

\* where the callback was called on o, 0 if it was not
CallOf(calls, o) ==
    IF \E i \in DOMAIN calls : calls[i].displayObject = o
    THEN CHOOSE i \in DOMAIN calls : calls[i].displayObject = o
    ELSE 0

CrawlOrder(objects, calls) ==
    /\ \A i, j \in DOMAIN calls : calls[i].displayObject = calls[j].displayObject => i = j
    /\ \A a, o \in DisplayObjects :
          (CallOf(calls, a) # 0 /\ CallOf(calls, o) # 0)
              => /\ Above(objects, a, o) => CallOf(calls, o) < CallOf(calls, a)
                 \* 3 and what is below it come before 2
                 /\ (a = 2 /\ (o = 3 \/ Above(objects, 3, o)))
                        => CallOf(calls, o) < CallOf(calls, a)

VisibleOnly(objects, calls) ==
    \A i \in DOMAIN calls :
        LET o == calls[i].displayObject
        IN  /\ objects[o].visible
            /\ o = 1 \/ objects[o].parent # 0
            /\ \A a \in DisplayObjects : Above(objects, a, o) => objects[a].visible

OneChain(objects, calls, tests) ==
    /\ \A i, j \in DOMAIN calls :
          (calls[i].hit /\ calls[j].hit /\ i # j)
              => \/ Above(objects, calls[i].displayObject, calls[j].displayObject)
                 \/ Above(objects, calls[j].displayObject, calls[i].displayObject)
    /\ \A i \in DOMAIN tests : tests[i].hit => i = Len(tests)

NoneDetached(objects, calls) ==
    \A i \in DOMAIN calls : calls[i].hit => ~objects[calls[i].displayObject].removes

----------------------------------------------------------------------------
\* C31: after build() (the constructor's included) on n >= 2 points, the
\* vertex and uv buffers hold 2n vertices (two floats each), the index buffer
\* holds 6(n-1) indices, segment i is the triangles (2i, 2i+1, 2i+2) and
\* (2i+2, 2i+1, 2i+3), and every index lies in 0..2n-1.
C31_RopeIndices ==
    (lastRope.op \in {"constructor", "build"} /\ Len(rope.points) >= 2)
        => LET n == Len(rope.points)
           IN  /\ Len(rope.vertices) = 2 * n * 2
               /\ Len(rope.uvs) = 2 * n * 2
               /\ Len(rope.indices) = 6 * (n - 1)
               /\ \A i \in 0..(n - 2) :
                     <<At(rope.indices, 6 * i), At(rope.indices, 6 * i + 1),
                       At(rope.indices, 6 * i + 2), At(rope.indices, 6 * i + 3),
                       At(rope.indices, 6 * i + 4), At(rope.indices, 6 * i + 5)>>
                         = <<2 * i, 2 * i + 1, 2 * i + 2, 2 * i + 2, 2 * i + 1, 2 * i + 3>>
               /\ \A k \in DOMAIN rope.indices : rope.indices[k] \in 0..(2 * n - 1)

\* a rope of four points after build(): 18 indices, the last one vertex 7
C31_Witness ==
    /\ lastRope.op = "build"
    /\ Len(rope.points) = 4
    /\ Len(rope.indices) = 18
    /\ At(rope.indices, 17) = 7
    /\ At(rope.uvs, 12) = Frac(3, 3)

----------------------------------------------------------------------------
\* C32: after bindBufferBase(buffer, index) the system holds a GL buffer for
\* the Buffer and binding point index of the current context refers to it,
\* whatever contextChange, destroyAll or destroy came before the call.
C32_BaseIsBound ==
    lastOp.op = "bindBufferBase"
        => /\ gpuBuffers[lastOp.buffer].present
           /\ gl.bases[lastOp.index] = gpuBuffers[lastOp.buffer].buffer

\* C33: destroyAll() with the context not lost completes without error,
\* calls gl.deleteBuffer once for every GL buffer held, and leaves the cache
\* of GL buffers empty, also when Buffers were destroyed before.
C33_DestroyAllCompletes ==
    lastOp.op = "destroyAll"
        => /\ ~lastOp.thrown
           /\ NumberOf("deleteBuffer", glCalls) = Cardinality(lastOp.held)
           /\ Held = {}
           /\ nulled = {}

----------------------------------------------------------------------------
\* C34: whatever start() and stop() calls come between the animation frames,
\* at most one animation-frame callback of the Ticker is pending, an
\* animation frame emits at most one 'tick', and none if the ticker was
\* stopped when the frame came.
C34_OnePending ==
    /\ pending <= 1
    /\ lastTick.op = "frame"
          => /\ Len(lastTick.ticks) <= 1
             /\ ~lastTick.active => lastTick.ticks = << >>

====
